---------------------------- MODULE Spec2Model ----------------------------
(***************************************************************************)
(* A model of the orchestration core of aider-ce (aider/coders/domain):    *)
(*   - RuntimeManager: background summarization and context compaction     *)
(*     (runtime.py), variables of the group rvars;                         *)
(*   - ToolUseManager: extraction, routing and concurrent dispatch of MCP  *)
(*     tool calls and tool initialization (tool_use.py), group tvars;      *)
(*     the expansion of concatenated arguments on its own, group xvars;    *)
(*   - EditorManager and the file sets of FileManager (editor.py,          *)
(*     file_manager.py), group evars;                                      *)
(*   - the cache-warming worker of RuntimeManager (runtime.py), group      *)
(*     wvars, which SpecWarm runs together with the summarization;         *)
(*   - ResponseParser.parse_partial_args (response_parser.py), group pvars.*)
(* Each group has a specification of its own (SpecRuntime, SpecTools,      *)
(* SpecExtract, SpecEditor, SpecWarm, SpecParse); Spec is their            *)
(* interleaving.                                                           *)
(***************************************************************************)
EXTENDS Integers, Sequences, FiniteSets, TLC

(***************************************************************************)
(* Bounds of the model.                                                    *)
(***************************************************************************)
\* longest done-message list the conversation grows to
MaxDone == 3
\* largest token threshold a configuration is drawn from
MaxThreshold == 2
\* largest number of cache-warming pings a configuration asks for
MaxPings == 1
\* longest argument buffer made of arbitrary pieces
MaxBuf == 2

VARIABLES
    \* ---- RuntimeManager / Coder conversation state (runtime.py) ----
    done_messages,             \* coder.done_messages: settled history
    summarizer_thread,         \* self.summarizer_thread and its worker's position
    summarizing_messages,      \* self.summarizing_messages (None or the snapshot)
    summarized_done_messages,  \* self.summarized_done_messages
    enable_context_compaction, \* coder.enable_context_compaction
    context_compaction_max_tokens, \* coder.context_compaction_max_tokens
    max_tokens,                \* coder.summarizer.max_tokens
    main_pc,                   \* where the main flow is (idle, or blocked in join)
    rt_obs,                    \* observation of the last handler call (history)
    \* ---- ToolUseManager / Coder tool state (tool_use.py) ----
    mcp_tools,                 \* self.mcp_tools: list of (server name, tool list)
    num_tool_calls,            \* coder.num_tool_calls
    cur_messages,              \* coder.cur_messages
    tool_pc,                   \* where the tool flow is
    server_tool_calls,         \* the ServerToolMap of the batch being dispatched
    attempt,                   \* the retry loop's i (0-based)
    cancel_requested,          \* a cancellation hit the gather of this attempt
    tasks,                     \* per server: the task gather runs for it
    faults,                    \* failures the servers had in this attempt
    tl_obs,                    \* observation of the last tool handler call (history)
    \* ---- process_tool_calls, extraction alone (tool_use.py lines 51-79) ----
    original_tool_calls,       \* message.tool_calls of the response
    expanded_tool_calls,       \* the expanded list
    extract_pc,                \* "start" before the expansion, "expanded" after
    \* ---- FileManager / EditorManager (file_manager.py, editor.py) ----
    abs_fnames,                \* the in-chat set (absolute paths)
    abs_read_only_fnames,      \* the read-only set
    abs_read_only_stubs_fnames, \* the stub-only set
    need_commit_before_edits,  \* coder.need_commit_before_edits (relative paths)
    disk,                      \* the absolute paths that exist on disk
    repo_files,                \* the paths repo.path_in_repo knows (tracked, staged)
    dirty_files,               \* the paths repo.is_dirty reports
    ed_cfg,                    \* coder.repo present, dirty_commits, dry_run, ignored paths
    batch,                     \* the prepare_to_edit call in progress
    ed_obs,                    \* observation of the last editor handler call (history)
    \* ---- RuntimeManager cache warming (runtime.py) ----
    cache_warming_thread,      \* self.cache_warming_thread: "None", or its worker in
                               \* the "sleep" of line 166, "due" before line 176,
                               \* "counted" after it, the "ping" of line 182, "exited"
    warming_pings_left,        \* self.warming_pings_left
    add_cache_headers,         \* self.add_cache_headers
    num_cache_warming_pings,   \* self.num_cache_warming_pings
    ok_to_warm_cache,          \* self.ok_to_warm_cache
    warm_obs,                  \* observation of the cache warming (history)
    \* ---- ResponseParser (response_parser.py) ----
    arguments,                 \* coder.partial_response_function_call["arguments"]
    parse_result,              \* what parse_partial_args returned
    parse_pc                   \* "start", or "parsed" once it has returned

rvars == <<done_messages, summarizer_thread, summarizing_messages,
           summarized_done_messages, enable_context_compaction,
           context_compaction_max_tokens, max_tokens, main_pc, rt_obs>>

tvars == <<mcp_tools, num_tool_calls, cur_messages, tool_pc, server_tool_calls,
           attempt, cancel_requested, tasks, faults, tl_obs>>

xvars == <<original_tool_calls, expanded_tool_calls, extract_pc>>

evars == <<abs_fnames, abs_read_only_fnames, abs_read_only_stubs_fnames,
           need_commit_before_edits, disk, repo_files, dirty_files, ed_cfg,
           batch, ed_obs>>

wvars == <<cache_warming_thread, warming_pings_left, add_cache_headers,
           num_cache_warming_pings, ok_to_warm_cache, warm_obs>>

pvars == <<arguments, parse_result, parse_pc>>

vars == <<rvars, tvars, xvars, evars, wvars, pvars>>

\* what the operations of one component leave alone: the other components
notRuntime == <<tvars, xvars, evars, wvars, pvars>>
notTools   == <<rvars, xvars, evars, wvars, pvars>>
notExtract == <<rvars, tvars, evars, wvars, pvars>>
notEditor  == <<rvars, tvars, xvars, wvars, pvars>>
notWarm    == <<rvars, tvars, xvars, evars, pvars>>
notParse   == <<rvars, tvars, xvars, evars, wvars>>

----------------------------------------------------------------------------
(***************************************************************************)
(* Messages.  A message is a role/content record; contents are abstract.   *)
(***************************************************************************)
UserMsg      == [role |-> "user", content |-> "q"]
AssistantMsg == [role |-> "assistant", content |-> "r"]
\* what the summarizer's summarize() produces as the head of its result
SummaryMsg   == [role |-> "user", content |-> "summary"]
\* runtime.py:129-139, the two-message replacement of a compaction
CompactionPair ==
    << [role |-> "user", content |-> "summary_text"],
       [role |-> "assistant", content |-> "ack"] >>

AppendableMsgs == {UserMsg, AssistantMsg}

\* Python's None for self.summarizing_messages / a set snapshot
None == [some |-> FALSE, v |-> <<>>]
Some(l) == [some |-> TRUE, v |-> l]

\* coder.summarizer.token_count: every message weighs one token
Tokens(msgs) == Len(msgs)

\* coder.summarizer.check_max_tokens(messages, max_tokens=...)
check_max_tokens(msgs, limit) == Tokens(msgs) > limit

\* the test of summarize_start's first line (default threshold)
ShouldSummarizeAlways(msgs) == TRUE
ShouldSummarize(msgs) == check_max_tokens(msgs, max_tokens)

\* the test that triggers a compaction
ShouldCompactAlways(msgs) == TRUE
ShouldCompact(msgs) == check_max_tokens(msgs, context_compaction_max_tokens)

\* coder.summarizer.summarize(messages): the possible results.  A list that is
\* not too big comes back as it is; otherwise a summary message, possibly
\* followed by the most recent message.
Summarize(msgs) ==
    IF ~check_max_tokens(msgs, max_tokens) THEN {msgs}
    ELSE {<<SummaryMsg>>, <<SummaryMsg, msgs[Len(msgs)]>>}

\* list equality as Python's ==: None equals no list
PyEq(opt, l) == opt.some /\ opt.v = l

IsStrictPrefix(p, l) ==
    /\ Len(p) < Len(l)
    /\ \A i \in 1..Len(p) : p[i] = l[i]

----------------------------------------------------------------------------
(***************************************************************************)
(* RuntimeManager: summarize_start / summarize_worker / summarize_end      *)
(***************************************************************************)
\* summarizer_thread: "None" (no thread object), or the position of the
\* worker of the thread object: "started" (before line 81), "running" (the
\* snapshot is taken, summarize() in flight), "finished".
ThreadStates == {"None", "started", "running", "finished"}

NoObs == [op |-> "none", pre_done |-> <<>>, pre_thread |-> "None",
          pending_result |-> <<>>, started |-> FALSE, end |-> "none"]

\* summarize_end line 101-102: the check-and-swap
SwapInAlways(snap, live, summarized) == summarized
SwapIn(snap, live, summarized) ==
    IF PyEq(snap, live) THEN summarized ELSE live

\* how a summarize_end that ran its swap ended (observation only)
EndKind(snap, live) ==
    IF PyEq(snap, live) THEN "swapped"
    ELSE IF snap.some /\ IsStrictPrefix(snap.v, live) THEN "discarded_appended"
    ELSE "discarded"

\* summarize_end after the join returned (lines 99-104); then, for
\* summarize_start, lines 76-77 start the next worker.
EndAfterJoin(thenStart, obs) ==
    /\ summarizer_thread = "finished"
    /\ done_messages' = SwapIn(summarizing_messages, done_messages,
                               summarized_done_messages)
    /\ summarizing_messages' = None
    /\ summarized_done_messages' = <<>>
    /\ summarizer_thread' = IF thenStart THEN "started" ELSE "None"
    /\ main_pc' = "idle"
    /\ rt_obs' = [obs EXCEPT !.pending_result = summarized_done_messages,
                             !.started = thenStart,
                             !.end = EndKind(summarizing_messages, done_messages)]

\* summarize_end with no thread (line 95-96); then lines 76-77.
EndNoThread(thenStart, obs) ==
    /\ summarizer_thread = "None"
    /\ summarizer_thread' = IF thenStart THEN "started" ELSE "None"
    /\ main_pc' = "idle"
    /\ rt_obs' = [obs EXCEPT !.started = thenStart, !.end = "noop"]
    /\ UNCHANGED <<done_messages, summarizing_messages, summarized_done_messages>>

\* summarize_end reaching join() while the worker has not finished: the main
\* flow blocks (line 98).
EndBlocksNoJoin(thenStart, obs) ==
    /\ summarizer_thread \in {"started", "running"}
    /\ summarizer_thread' = IF thenStart THEN "started" ELSE "None"
    /\ main_pc' = "idle"
    /\ rt_obs' = [obs EXCEPT !.started = thenStart]
    /\ UNCHANGED <<done_messages, summarizing_messages, summarized_done_messages>>
EndBlocks(thenStart, obs) ==
    /\ summarizer_thread \in {"started", "running"}
    /\ main_pc' = IF thenStart THEN "join_start" ELSE "join_end"
    /\ rt_obs' = obs
    /\ UNCHANGED <<done_messages, summarizing_messages, summarized_done_messages,
                   summarizer_thread>>

EndCall(thenStart, obs) ==
    \/ EndNoThread(thenStart, obs)
    \/ EndAfterJoin(thenStart, obs)
    \/ EndBlocks(thenStart, obs)

\* summarize_start as called with observation record obs (lines 66-77)
StartCall(obs) ==
    IF ~ShouldSummarize(done_messages)
    THEN /\ main_pc' = "idle"
         /\ rt_obs' = obs
         /\ UNCHANGED <<done_messages, summarizing_messages,
                        summarized_done_messages, summarizer_thread>>
    ELSE EndCall(TRUE, obs)

ObsOf(op) == [NoObs EXCEPT !.op = op, !.pre_done = done_messages,
                           !.pre_thread = summarizer_thread]

Config == <<enable_context_compaction, context_compaction_max_tokens, max_tokens>>

\* RuntimeManager.summarize_start
summarize_start ==
    /\ main_pc = "idle"
    /\ StartCall(ObsOf("summarize_start"))
    /\ UNCHANGED <<Config, notRuntime>>

\* RuntimeManager.summarize_end
summarize_end ==
    /\ main_pc = "idle"
    /\ EndCall(FALSE, ObsOf("summarize_end"))
    /\ UNCHANGED <<Config, notRuntime>>

\* the join() of line 98 returns: the blocked call goes on
JoinReturns ==
    /\ main_pc \in {"join_start", "join_end"}
    /\ EndAfterJoin(main_pc = "join_start", rt_obs)
    /\ UNCHANGED <<Config, notRuntime>>

\* summarize_worker line 81: the snapshot
WorkerSnapshot ==
    /\ summarizer_thread = "started"
    /\ summarizing_messages' = Some(done_messages)
    /\ summarizer_thread' = "running"
    /\ UNCHANGED <<done_messages, summarized_done_messages, main_pc, rt_obs, Config, notRuntime>>

\* summarize_worker lines 82-91: summarize() returns, raises ValueError, or
\* raises something else (the thread dies with its result never assigned)
WorkerReturns ==
    /\ summarizer_thread = "running"
    /\ \E res \in Summarize(summarizing_messages.v) :
          summarized_done_messages' = res
    /\ summarizer_thread' = "finished"
    /\ UNCHANGED <<done_messages, summarizing_messages, main_pc, rt_obs, Config, notRuntime>>

WorkerValueError ==
    /\ summarizer_thread = "running"
    /\ summarized_done_messages' = summarizing_messages.v
    /\ summarizer_thread' = "finished"
    /\ UNCHANGED <<done_messages, summarizing_messages, main_pc, rt_obs, Config, notRuntime>>

WorkerDies ==
    /\ summarizer_thread = "running"
    /\ summarizer_thread' = "finished"
    /\ UNCHANGED <<done_messages, summarizing_messages, summarized_done_messages,
                   main_pc, rt_obs, Config, notRuntime>>

\* The coder settles a message of the turn into done_messages (the caller of
\* this manager; §3 ConversationHistory).
AppendDone ==
    /\ main_pc = "idle"
    /\ Len(done_messages) < MaxDone
    /\ \E m \in AppendableMsgs : done_messages' = Append(done_messages, m)
    /\ rt_obs' = NoObs
    /\ UNCHANGED <<summarizer_thread, summarizing_messages,
                   summarized_done_messages, main_pc, Config, notRuntime>>

(***************************************************************************)
(* RuntimeManager.compact_context_if_needed (lines 106-146)                *)
(***************************************************************************)
\* lines 108-110: compaction is off, summarize in the background instead
CompactDisabled ==
    /\ main_pc = "idle"
    /\ ~enable_context_compaction
    /\ StartCall(ObsOf("compact_disabled"))
    /\ UNCHANGED <<Config, notRuntime>>

\* lines 112-115: below the compaction threshold
CompactNotNeeded ==
    /\ main_pc = "idle"
    /\ enable_context_compaction
    /\ ~ShouldCompact(done_messages)
    /\ rt_obs' = ObsOf("compact_not_needed")
    /\ UNCHANGED <<done_messages, summarizer_thread, summarizing_messages,
                   summarized_done_messages, main_pc, Config, notRuntime>>

\* lines 119-141: summarize_all_as_text returned a text
CompactSucceeds ==
    /\ main_pc = "idle"
    /\ enable_context_compaction
    /\ ShouldCompact(done_messages)
    /\ done_messages' = CompactionPair
    /\ rt_obs' = ObsOf("compact_ok")
    /\ UNCHANGED <<summarizer_thread, summarizing_messages,
                   summarized_done_messages, main_pc, Config, notRuntime>>

\* lines 125-126, 142-146: summarize_all_as_text raised or returned an empty
\* text; the handler warns and falls back to summarize_start
CompactFails ==
    /\ main_pc = "idle"
    /\ enable_context_compaction
    /\ ShouldCompact(done_messages)
    /\ \E why \in {"raised", "empty"} :
          StartCall(ObsOf("compact_failed"))
    /\ UNCHANGED <<Config, notRuntime>>

compact_context_if_needed ==
    \/ CompactDisabled
    \/ CompactNotNeeded
    \/ CompactSucceeds
    \/ CompactFails

----------------------------------------------------------------------------
(***************************************************************************)
(* ToolUseManager: configuration and data                                  *)
(***************************************************************************)
\* coder.mcp_servers, in configuration order; a server is known by its name
mcp_servers == <<"A", "B">>
ServerNames == {mcp_servers[i] : i \in 1..Len(mcp_servers)}

\* the tool names load_mcp_tools returns for each server
Advertised(s) ==
    CASE s = "A" -> <<"search", "read">>
      [] s = "B" -> <<"SEARCH", "search", "list">>
      [] OTHER   -> <<>>

\* str.lower() on the names of the model
Lower(n) ==
    CASE n \in {"Search", "SEARCH", "search"} -> "search"
      [] n \in {"Read", "read"} -> "read"
      [] n \in {"List", "list"} -> "list"
      [] OTHER -> n

\* An argument string is the sequence of the top-level chunks the lenient
\* scanner finds in it: "obj" a complete JSON object, "bad" a chunk that
\* starts like JSON and does not parse, "blank" whitespace; <<"text">> is a
\* string that starts with neither '{' nor '['; <<>> is the empty string.
split_concatenated_json(args) == args

\* the tool calls a model response may request (function name, arguments)
CallKinds ==
    { [name |-> "Search", args |-> <<"obj">>],
      [name |-> "read",   args |-> <<"obj", "obj">>],
      [name |-> "list",   args |-> <<>>],
      [name |-> "List",   args |-> <<"bad">>],
      [name |-> "nope",   args |-> <<"obj">>] }

\* message.tool_calls of a response: the i-th call has the identifier <<i>>;
\* a derived call {id}-{n} has the identifier <<i, n>>
ToolCallsOf(kinds) ==
    [i \in 1..Len(kinds) |->
        [id |-> <<i>>, name |-> kinds[i].name, args |-> kinds[i].args]]

\* a tool-response message
Resp(id, content) == [role |-> "tool", tool_call_id |-> id, content |-> content]

\* line 248: the per-call error text, which embeds the exception: of the tool,
\* or httpx.RemoteProtocolError when the remote end dropped the connection
ToolError == <<"Error executing tool call", "tool failure">>
DropError == <<"Error executing tool call", "RemoteProtocolError">>
\* line 257 and line 264: the connection errors
Disconnected == <<"disconnected unexpectedly">>
CouldNotConnect == <<"Could not connect to server">>

(***************************************************************************)
(* process_tool_calls lines 51-79: expansion of concatenated arguments     *)
(***************************************************************************)
LooksLikeJson(args) == args # <<>> /\ args[1] # "text"

\* (identifiers counted from 1)
DerivedCallsFromOne(call) ==
    LET chunks == split_concatenated_json(call.args)
        all == [i \in 1..Len(chunks) |->
                  [id |-> call.id \o <<i>>, name |-> call.name,
                   args |-> <<chunks[i]>>]]
    IN  SelectSeq(all, LAMBDA c : c.args[1] # "blank")

DerivedCalls(call) ==
    LET chunks == split_concatenated_json(call.args)
        all == [i \in 1..Len(chunks) |->
                  [id |-> call.id \o <<i - 1>>, name |-> call.name,
                   args |-> <<chunks[i]>>]]
    IN  SelectSeq(all, LAMBDA c : c.args[1] # "blank")

ExpandOne(call) ==
    IF ~LooksLikeJson(call.args) THEN <<call>>
    ELSE IF Len(split_concatenated_json(call.args)) <= 1 THEN <<call>>
    ELSE DerivedCalls(call)

RECURSIVE Expand(_)
Expand(calls) ==
    IF calls = <<>> THEN <<>>
    ELSE ExpandOne(Head(calls)) \o Expand(Tail(calls))

(***************************************************************************)
(* _gather_server_tool_calls (lines 118-147).  The ServerToolMap is a      *)
(* Python dict: a sequence of entries in insertion order.                  *)
(***************************************************************************)
\* lines 134-138
ToolMatchesExact(tool, call) == tool = call.name
ToolMatches(tool, call) == Lower(tool) = Lower(call.name)

\* lines 140-145: the first configured server of that name
ServerKnown(server_name) == server_name \in ServerNames

HasEntry(stm, s) == \E i \in 1..Len(stm) : stm[i].server = s

\* lines 142-144
AddCall(stm, s, call) ==
    IF HasEntry(stm, s)
    THEN [i \in 1..Len(stm) |->
            IF stm[i].server = s
            THEN [stm[i] EXCEPT !.calls = Append(@, call)]
            ELSE stm[i]]
    ELSE Append(stm, [server |-> s, calls |-> <<call>>])

\* lines 133-145 for one (server_name, server_tools) pair: the scan goes over
\* every tool of the list (the break of line 145 leaves the search of the
\* server instance only)
RECURSIVE ScanTools(_, _, _, _)
ScanTools(stm, server_name, tools, call) ==
    IF tools = <<>> THEN stm
    ELSE LET next == IF ToolMatches(Head(tools), call) /\ ServerKnown(server_name)
                     THEN AddCall(stm, server_name, call)
                     ELSE stm
         IN  ScanTools(next, server_name, Tail(tools), call)

\* line 132: over every pair of self.mcp_tools
RECURSIVE ScanServers(_, _, _)
ScanServers(stm, pairs, call) ==
    IF pairs = <<>> THEN stm
    ELSE ScanServers(ScanTools(stm, Head(pairs).name, Head(pairs).tools, call),
                     Tail(pairs), call)

\* line 130: over every tool call
RECURSIVE RouteAll(_, _, _)
RouteAll(stm, pairs, calls) ==
    IF calls = <<>> THEN stm
    ELSE RouteAll(ScanServers(stm, pairs, Head(calls)), pairs, Tail(calls))

\* None (no tools known, lines 126-127) and the empty dict are both falsy
\* for the caller; both are the empty map here
gather_server_tool_calls(pairs, calls) ==
    IF pairs = <<>> THEN <<>> ELSE RouteAll(<<>>, pairs, calls)

CallsOf(stm, s) ==
    IF HasEntry(stm, s)
    THEN stm[CHOOSE i \in 1..Len(stm) : stm[i].server = s].calls
    ELSE <<>>

(***************************************************************************)
(* The task gather runs for one server: _exec_server_tools (lines 155-273) *)
(* in a dispatch, get_server_tools (lines 314-325) in the initialization.  *)
(***************************************************************************)
\* pc: "none" no task; "ready" created, not yet run; "connecting" in
\* server.connect(); "listing" in load_mcp_tools; "calling" in
\* call_openai_tool; "disconnecting" in the finally's server.disconnect();
\* "done" returned; "cancelled" ended by CancelledError.
\* idx, argi: the call and the argument object the loop is at; results: the
\* results of the call so far; responses: tool_responses; listed: what
\* get_server_tools returns.  History: invoked (every call_openai_tool begun:
\* position in the routed list, identifier, argument), completed (those that
\* returned or raised), connects, disconnects, warned (tool_warning calls);
\* faults are counted in the variable faults.
NoTask == [pc |-> "none", idx |-> 0, argi |-> 0, results |-> <<>>,
           responses |-> <<>>, invoked |-> <<>>, completed |-> 0,
           connects |-> 0, disconnects |-> 0, cancelled |-> FALSE,
           listed |-> "none", warned |-> 0]
ReadyTask == [NoTask EXCEPT !.pc = "ready"]

Finished(t) == t.pc \in {"none", "done", "cancelled"}

\* lines 183-198: the argument objects a call is invoked with
ParsedArgs(args) ==
    IF args = <<>> THEN <<"{}">>
    ELSE SelectSeq(split_concatenated_json(args), LAMBDA c : c = "obj")

\* lines 188-195: one warning per chunk that does not parse
UnparsedChunks(args) == Len(split_concatenated_json(args)) - Len(SelectSeq(args, LAMBDA c : c = "obj"))

\* The for loop of line 179 from call idx on, up to its next await: a call
\* with no argument object gets its (empty) response at once (lines 200, 239);
\* past the last call the finally awaits server.disconnect() (line 271).
\* (a loop that begins every invocation without awaiting the one before)
RECURSIVE AdvanceNoWait(_, _)
AdvanceNoWait(t, calls) ==
    IF t.idx > Len(calls)
    THEN [t EXCEPT !.pc = "disconnecting", !.disconnects = @ + 1]
    ELSE LET c == calls[t.idx]
         IN  IF ParsedArgs(c.args) = <<>>
             THEN AdvanceNoWait([t EXCEPT !.idx = @ + 1,
                                    !.responses = Append(@, Resp(c.id, <<>>))],
                                calls)
             ELSE AdvanceNoWait([t EXCEPT !.idx = @ + 1,
                                    !.responses = Append(@, Resp(c.id, <<"result">>)),
                                    !.invoked = Append(@, [pos |-> t.idx, id |-> c.id,
                                                           arg |-> 1])],
                                calls)
RECURSIVE Advance(_, _)
Advance(t, calls) ==
    IF t.idx > Len(calls)
    THEN [t EXCEPT !.pc = "disconnecting", !.disconnects = @ + 1]
    ELSE LET c == calls[t.idx]
         IN  IF ParsedArgs(c.args) = <<>>
             THEN Advance([t EXCEPT !.idx = @ + 1,
                                    !.responses = Append(@, Resp(c.id, <<>>)),
                                    !.warned = @ + UnparsedChunks(c.args)],
                          calls)
             ELSE [t EXCEPT !.pc = "calling", !.argi = 1, !.results = <<>>,
                            !.warned = @ + UnparsedChunks(c.args),
                            !.invoked = Append(@, [pos |-> t.idx, id |-> c.id, arg |-> 1])]

\* lines 205-245: call_openai_tool returned for argument object argi
AfterCallReturns(t, calls) ==
    LET c == calls[t.idx]
        results == Append(t.results, "result")
    IN  IF t.argi < Len(ParsedArgs(c.args))
        THEN [t EXCEPT !.argi = @ + 1, !.results = results,
                       !.completed = @ + 1,
                       !.invoked = Append(@, [pos |-> t.idx, id |-> c.id,
                                              arg |-> t.argi + 1])]
        ELSE Advance([t EXCEPT !.idx = @ + 1, !.results = <<>>,
                               !.completed = @ + 1,
                               !.responses = Append(@, Resp(c.id, results))],
                     calls)

\* lines 247-255: anything call_openai_tool raises that is an Exception, the
\* remote-disconnected error included, is caught for this call alone
AfterCallRaisesAbort(t, calls, content) ==
    LET c == calls[t.idx]
    IN  [t EXCEPT !.pc = "disconnecting", !.disconnects = @ + 1,
                  !.results = <<>>, !.warned = @ + 1, !.completed = @ + 1,
                  !.responses = Append(@, Resp(c.id, content))]
AfterCallRaisesNoResponse(t, calls, content) ==
    Advance([t EXCEPT !.idx = @ + 1, !.results = <<>>, !.warned = @ + 1,
                      !.completed = @ + 1],
            calls)
AfterCallRaises(t, calls, content) ==
    LET c == calls[t.idx]
    IN  Advance([t EXCEPT !.idx = @ + 1, !.results = <<>>, !.warned = @ + 1,
                          !.completed = @ + 1,
                          !.responses = Append(@, Resp(c.id, content))],
                calls)

\* lines 256-271: server.connect() raised; every routed call gets the same
\* connection error, then the finally disconnects
AfterConnectFailsFirstOnly(t, calls, content) ==
    [t EXCEPT !.pc = "disconnecting", !.disconnects = @ + 1, !.warned = @ + 1,
              !.responses = @ \o [i \in 1..1 |-> Resp(calls[i].id, content)]]
AfterConnectFails(t, calls, content) ==
    [t EXCEPT !.pc = "disconnecting", !.disconnects = @ + 1, !.warned = @ + 1,
              !.responses = @ \o [i \in 1..Len(calls) |-> Resp(calls[i].id, content)]]

\* a CancelledError thrown into a task at its await (it is no Exception: no
\* handler catches it); a task inside the try runs its finally
CancelTaskNoFinally(t) ==
    CASE t.pc = "ready" -> [t EXCEPT !.pc = "cancelled", !.cancelled = TRUE]
      [] t.pc \in {"connecting", "listing", "calling", "disconnecting"} ->
            [t EXCEPT !.pc = "cancelled", !.cancelled = TRUE]
      [] OTHER -> t
CancelTask(t) ==
    CASE t.pc = "ready" -> [t EXCEPT !.pc = "cancelled", !.cancelled = TRUE]
      [] t.pc \in {"connecting", "listing", "calling"} ->
            [t EXCEPT !.pc = "disconnecting", !.disconnects = @ + 1,
                      !.cancelled = TRUE]
      [] t.pc = "disconnecting" ->
            [t EXCEPT !.pc = "cancelled", !.cancelled = TRUE]
      [] OTHER -> t

\* the finally's disconnect returned (lines 270-273, 324-325)
DisconnectTwice(t) ==
    [t EXCEPT !.pc = IF t.cancelled THEN "cancelled" ELSE "done",
              !.disconnects = @ + 1]
AfterDisconnect(t) ==
    [t EXCEPT !.pc = IF t.cancelled THEN "cancelled" ELSE "done"]

(***************************************************************************)
(* process_tool_calls (lines 28-100)                                       *)
(***************************************************************************)
\* tool_use.py:287 and :334
max_retries == 3
\* coder.max_tool_calls (25 by default, runtime.py:23)
max_tool_calls == 1
\* most tool calls in one model response
MaxBatch == 2
\* most failures (raising connects, listings and calls) in one attempt
MaxFaults == 1

Responses == UNION {[1..n -> CallKinds] : n \in 0..MaxBatch}

\* history of the handler call: what was asked and answered, the warnings of
\* the cap and of the exhausted retries, the CancelledErrors caught, the
\* return value, cur_messages and num_tool_calls at the call
NoToolObs == [op |-> "none", ncalls |-> 0, routed |-> 0, prompts |-> 0,
              answer |-> "none", warn_cap |-> 0, warn_cancel |-> 0,
              cancels |-> 0, ret |-> "none", pre_cur |-> <<>>, pre_num |-> 0,
              batch |-> <<>>, first_done |-> "none", ran |-> {}]

\* line 84
MayRunOffByOne(stm, num) == stm # <<>> /\ num <= max_tool_calls
MayRun(stm, num) == stm # <<>> /\ num < max_tool_calls
\* line 95
Capped(num) == num >= max_tool_calls
\* line 87: the answer to "Run tools?"
ConfirmedAlways(answer) == TRUE
Confirmed(answer) == answer

TasksFor(stm) == [s \in ServerNames |-> IF HasEntry(stm, s) THEN ReadyTask ELSE NoTask]
NoTasks == [s \in ServerNames |-> NoTask]

ToolObs(op, kinds, stm) ==
    [NoToolObs EXCEPT !.op = op, !.ncalls = Len(kinds), !.routed = Len(stm),
                      !.pre_cur = cur_messages, !.pre_num = num_tool_calls,
                      !.batch = kinds]

\* the whole handler up to its return or to the await of the dispatch
ProcessToolCalls(kinds, answer) ==
    LET calls == Expand(ToolCallsOf(kinds))
        stm   == gather_server_tool_calls(mcp_tools, calls)
    IN  IF kinds = <<>>
        THEN \* lines 30-49: no tool calls in the response
             /\ tl_obs' = [ToolObs("no_calls", kinds, <<>>) EXCEPT !.ret = "False"]
             /\ UNCHANGED <<tool_pc, server_tool_calls, tasks, attempt,
                            cancel_requested>>
        ELSE IF MayRun(stm, num_tool_calls)
        THEN IF Confirmed(answer)
             THEN \* line 88: the dispatch starts (lines 285-290)
                  /\ tl_obs' = [ToolObs("confirmed", kinds, stm) EXCEPT
                                   !.prompts = 1, !.answer = IF answer THEN "yes" ELSE "no",
                                   !.ret = "pending"]
                  /\ tool_pc' = "gather"
                  /\ server_tool_calls' = stm
                  /\ tasks' = TasksFor(stm)
                  /\ attempt' = 0
                  /\ cancel_requested' = FALSE
             ELSE \* declined: line 100
                  /\ tl_obs' = [ToolObs("declined", kinds, stm) EXCEPT
                                   !.prompts = 1, !.answer = "no", !.ret = "False"]
                  /\ UNCHANGED <<tool_pc, server_tool_calls, tasks, attempt,
                                 cancel_requested>>
        ELSE IF Capped(num_tool_calls)
        THEN \* lines 95-100
             /\ tl_obs' = [ToolObs("capped", kinds, stm) EXCEPT
                              !.warn_cap = 1, !.ret = "False"]
             /\ UNCHANGED <<tool_pc, server_tool_calls, tasks, attempt,
                            cancel_requested>>
        ELSE \* nothing routed: line 100
             /\ tl_obs' = [ToolObs("nothing_routed", kinds, stm) EXCEPT !.ret = "False"]
             /\ UNCHANGED <<tool_pc, server_tool_calls, tasks, attempt,
                            cancel_requested>>

process_tool_calls ==
    /\ tool_pc = "idle"
    /\ tl_obs.op = "none"
    /\ \E kinds \in Responses, answer \in BOOLEAN : ProcessToolCalls(kinds, answer)
    /\ UNCHANGED <<mcp_tools, num_tool_calls, cur_messages, notTools>>
    /\ faults' = 0

(***************************************************************************)
(* _exec_server_tools: the steps of the task of server s                   *)
(***************************************************************************)
InDispatch == tool_pc = "gather"
InInit     == tool_pc = "init_gather"

TaskFrame == <<mcp_tools, num_tool_calls, cur_messages, tool_pc, server_tool_calls,
               attempt, cancel_requested, tl_obs, notTools>>

\* line 177 / line 316: the task runs up to its await of server.connect()
TaskConnects(s) ==
    /\ InDispatch \/ InInit
    /\ tasks[s].pc = "ready"
    /\ tasks' = [tasks EXCEPT ![s].pc = "connecting", ![s].connects = @ + 1]
    /\ UNCHANGED TaskFrame
    /\ UNCHANGED faults

\* line 177 returned a session; the loop of line 179 starts
ConnectReturns(s) ==
    /\ InDispatch
    /\ tasks[s].pc = "connecting"
    /\ tasks' = [tasks EXCEPT
                   ![s] = Advance([@ EXCEPT !.idx = 1],
                                  CallsOf(server_tool_calls, s))]
    /\ UNCHANGED TaskFrame
    /\ UNCHANGED faults

\* line 177 raised: httpx.RemoteProtocolError (line 256) or another
\* Exception (line 263)
ConnectRaises(s) ==
    /\ InDispatch
    /\ tasks[s].pc = "connecting"
    /\ \E content \in {Disconnected, CouldNotConnect} :
          tasks' = [tasks EXCEPT
                      ![s] = AfterConnectFails(@, CallsOf(server_tool_calls, s),
                                               content)]
    /\ UNCHANGED TaskFrame
    /\ faults < MaxFaults /\ faults' = faults + 1

\* line 205 returned
CallReturns(s) ==
    /\ InDispatch
    /\ tasks[s].pc = "calling"
    /\ tasks' = [tasks EXCEPT
                   ![s] = AfterCallReturns(@, CallsOf(server_tool_calls, s))]
    /\ UNCHANGED TaskFrame
    /\ UNCHANGED faults

\* line 205 raised an Exception of the tool
CallRaises(s) ==
    /\ InDispatch
    /\ tasks[s].pc = "calling"
    /\ faults < MaxFaults
    /\ faults' = faults + 1
    /\ tasks' = [tasks EXCEPT
                   ![s] = AfterCallRaises(@, CallsOf(server_tool_calls, s),
                                          ToolError)]
    /\ UNCHANGED TaskFrame

\* line 205 raised httpx.RemoteProtocolError: the remote end dropped the
\* connection during the call
CallDropsConnection(s) ==
    /\ InDispatch
    /\ tasks[s].pc = "calling"
    /\ faults < MaxFaults
    /\ faults' = faults + 1
    /\ tasks' = [tasks EXCEPT
                   ![s] = AfterCallRaises(@, CallsOf(server_tool_calls, s),
                                          DropError)]
    /\ UNCHANGED TaskFrame

\* line 271 / line 325 returned
DisconnectReturns(s) ==
    /\ InDispatch \/ InInit
    /\ tasks[s].pc = "disconnecting"
    /\ tasks' = [tasks EXCEPT ![s] = AfterDisconnect(@)]
    \* (noted for the properties: the server whose task ended first)
    /\ tl_obs' = [tl_obs EXCEPT !.first_done = IF InDispatch /\ @ = "none" THEN s ELSE @]
    /\ UNCHANGED <<mcp_tools, num_tool_calls, cur_messages, tool_pc,
                   server_tool_calls, attempt, cancel_requested, notTools>>
    /\ UNCHANGED faults

\* The turn's lifecycle cancels the flow while it awaits gather (line 281 /
\* line 329): gather cancels every task that has not finished, and raises
\* CancelledError to the flow once they all have.
Cancel ==
    /\ InDispatch \/ InInit
    /\ ~cancel_requested
    /\ cancel_requested' = TRUE
    /\ tasks' = [s \in ServerNames |-> CancelTask(tasks[s])]
    /\ UNCHANGED <<mcp_tools, num_tool_calls, cur_messages, tool_pc,
                   server_tool_calls, attempt, tl_obs, notTools>>
    /\ UNCHANGED faults

AllFinished == \A s \in ServerNames : Finished(tasks[s])

(***************************************************************************)
(* _execute_tool_calls: the retry loop (lines 285-305) and the return of   *)
(* process_tool_calls (lines 90-94)                                        *)
(***************************************************************************)
\* lines 301-303: the servers' response lists, in the order of the map
\* (the lists in the order the tasks ended: the first to end comes first)
RECURSIVE FlattenAsCompleted(_, _)
FlattenAsCompleted(stm, tks) ==
    IF stm = <<>> THEN <<>>
    ELSE LET i == IF HasEntry(stm, tl_obs.first_done)
                  THEN CHOOSE k \in 1..Len(stm) : stm[k].server = tl_obs.first_done
                  ELSE 1
             rest == [k \in 1..(Len(stm) - 1) |-> IF k < i THEN stm[k] ELSE stm[k + 1]]
         IN  tks[stm[i].server].responses \o FlattenAsCompleted(rest, tks)
RECURSIVE Flatten(_, _)
Flatten(stm, tks) ==
    IF stm = <<>> THEN <<>>
    ELSE tks[Head(stm).server].responses \o Flatten(Tail(stm), tks)

\* line 293
RetryAgainAlways(i) == TRUE
RetryAgain(i) == i < max_retries - 1

\* lines 290-291, 301-305, 90-94: gather returned every server's list
GatherReturns ==
    /\ InDispatch
    /\ AllFinished
    /\ ~cancel_requested
    /\ cur_messages' = cur_messages \o Flatten(server_tool_calls, tasks)
    /\ tool_pc' = "idle"
    /\ tl_obs' = [tl_obs EXCEPT !.ret = "True"]
    /\ UNCHANGED <<mcp_tools, num_tool_calls, server_tool_calls, attempt,
                   cancel_requested, tasks, notTools>>
    /\ UNCHANGED faults

\* the identifiers of the calls whose invocation has returned or raised
Ran(tks) ==
    UNION {{tks[s].invoked[k].id : k \in 1..tks[s].completed} : s \in ServerNames}

\* lines 292-294: CancelledError caught, another attempt follows the pause
GatherCancelledRetry ==
    /\ InDispatch
    /\ AllFinished
    /\ cancel_requested
    /\ RetryAgain(attempt)
    /\ tool_pc' = "sleep"
    \* (noted for the properties: the calls that had returned when the
    \* attempt was cancelled)
    /\ tl_obs' = [tl_obs EXCEPT !.cancels = @ + 1, !.first_done = "none",
                                !.ran = @ \cup Ran(tasks)]
    /\ UNCHANGED <<mcp_tools, num_tool_calls, cur_messages, server_tool_calls,
                   attempt, cancel_requested, notTools>>
    /\ UNCHANGED faults
    /\ tasks' = NoTasks

\* lines 295-299, 301-305, 90-94: CancelledError caught on the last attempt
GatherCancelledGiveUp ==
    /\ InDispatch
    /\ AllFinished
    /\ cancel_requested
    /\ ~RetryAgain(attempt)
    /\ tool_pc' = "idle"
    /\ tl_obs' = [tl_obs EXCEPT !.cancels = @ + 1, !.warn_cancel = @ + 1,
                                !.ret = "True"]
    /\ UNCHANGED <<mcp_tools, num_tool_calls, cur_messages, server_tool_calls,
                   attempt, cancel_requested, notTools>>
    /\ UNCHANGED faults
    /\ tasks' = NoTasks

\* line 294 returned: the next iteration creates the tasks anew
SleepReturns ==
    /\ tool_pc = "sleep"
    /\ tool_pc' = "gather"
    /\ attempt' = attempt + 1
    /\ cancel_requested' = FALSE
    /\ tasks' = TasksFor(server_tool_calls)
    /\ UNCHANGED <<mcp_tools, num_tool_calls, cur_messages, server_tool_calls,
                   tl_obs, notTools>>
    /\ faults' = 0

\* a cancellation during the pause of line 294 is caught by nothing: the
\* CancelledError leaves process_tool_calls
SleepCancelled ==
    /\ tool_pc = "sleep"
    /\ tool_pc' = "idle"
    /\ tl_obs' = [tl_obs EXCEPT !.ret = "CancelledError"]
    /\ UNCHANGED <<mcp_tools, num_tool_calls, cur_messages, server_tool_calls,
                   attempt, cancel_requested, tasks, notTools>>
    /\ UNCHANGED faults

\* The coder's loop after the handler returned: a batch that ran is counted,
\* and the next turn starts with the user's message.
TurnEnds ==
    /\ tool_pc = "idle"
    /\ tl_obs.op # "none"
    /\ num_tool_calls' = IF tl_obs.ret = "True" THEN num_tool_calls + 1
                         ELSE num_tool_calls
    /\ cur_messages' = <<UserMsg>>
    /\ tl_obs' = NoToolObs
    /\ tasks' = NoTasks
    /\ server_tool_calls' = <<>>
    /\ attempt' = 0
    /\ cancel_requested' = FALSE
    /\ UNCHANGED <<mcp_tools, tool_pc, notTools>>
    /\ faults' = 0

(***************************************************************************)
(* initialize_mcp_tools (lines 307-360)                                    *)
(***************************************************************************)
\* lines 327-337: the first attempt
InitializeStarts ==
    /\ tool_pc = "uninit"
    /\ tool_pc' = "init_gather"
    /\ tasks' = [s \in ServerNames |-> ReadyTask]
    /\ attempt' = 0
    /\ cancel_requested' = FALSE
    /\ tl_obs' = [NoToolObs EXCEPT !.op = "initialize"]
    /\ UNCHANGED <<mcp_tools, num_tool_calls, cur_messages, server_tool_calls, notTools>>
    /\ faults' = 0

\* line 316 returned; the task awaits load_mcp_tools (line 317)
InitConnectReturns(s) ==
    /\ InInit
    /\ tasks[s].pc = "connecting"
    /\ tasks' = [tasks EXCEPT ![s].pc = "listing"]
    /\ UNCHANGED TaskFrame
    /\ UNCHANGED faults

\* line 316 or line 317 raised: a warning, None, and the finally (321-325)
InitRaises(s) ==
    /\ InInit
    /\ tasks[s].pc \in {"connecting", "listing"}
    /\ tasks' = [tasks EXCEPT ![s].pc = "disconnecting",
                              ![s].disconnects = @ + 1,
                              ![s].warned = @ + 1,
                              ![s].listed = "failed"]
    /\ UNCHANGED TaskFrame
    /\ faults < MaxFaults /\ faults' = faults + 1

\* line 317 returned: (server.name, server_tools) after the finally (320, 325)
InitListReturns(s) ==
    /\ InInit
    /\ tasks[s].pc = "listing"
    /\ tasks' = [tasks EXCEPT ![s].pc = "disconnecting",
                              ![s].disconnects = @ + 1,
                              ![s].listed = "tools"]
    /\ UNCHANGED TaskFrame
    /\ UNCHANGED faults

\* line 330: the pairs of the servers that returned one, in server order
\* (a pair for every server, whatever its task returned)
ListedPairsOfAll(servers, tks) ==
    [i \in 1..Len(servers) |-> [name |-> servers[i], tools |-> Advertised(servers[i])]]
RECURSIVE ListedPairs(_, _)
ListedPairs(servers, tks) ==
    IF servers = <<>> THEN <<>>
    ELSE (IF tks[Head(servers)].listed = "tools"
          THEN <<[name |-> Head(servers), tools |-> Advertised(Head(servers))]>>
          ELSE <<>>)
         \o ListedPairs(Tail(servers), tks)

\* lines 337-338, 360
InitGatherReturns ==
    /\ InInit
    /\ AllFinished
    /\ ~cancel_requested
    /\ mcp_tools' = ListedPairs(mcp_servers, tasks)
    /\ tool_pc' = "idle"
    /\ tl_obs' = NoToolObs
    /\ tasks' = NoTasks
    /\ UNCHANGED <<num_tool_calls, cur_messages, server_tool_calls, attempt,
                   cancel_requested, notTools>>
    /\ faults' = 0

\* lines 339-341
InitCancelledRetry ==
    /\ InInit
    /\ AllFinished
    /\ cancel_requested
    /\ RetryAgain(attempt)
    /\ tool_pc' = "init_sleep"
    /\ tl_obs' = [tl_obs EXCEPT !.cancels = @ + 1]
    /\ UNCHANGED <<mcp_tools, num_tool_calls, cur_messages, server_tool_calls,
                   attempt, cancel_requested, notTools>>
    /\ UNCHANGED faults
    /\ tasks' = NoTasks

\* lines 342-347, 360
InitCancelledGiveUp ==
    /\ InInit
    /\ AllFinished
    /\ cancel_requested
    /\ ~RetryAgain(attempt)
    /\ mcp_tools' = <<>>
    /\ tool_pc' = "idle"
    /\ tl_obs' = [NoToolObs EXCEPT !.warn_cancel = 1]
    /\ tasks' = NoTasks
    /\ attempt' = 0
    /\ cancel_requested' = FALSE
    /\ UNCHANGED <<num_tool_calls, cur_messages, server_tool_calls, notTools>>
    /\ faults' = 0

\* line 341 returned
InitSleepReturns ==
    /\ tool_pc = "init_sleep"
    /\ tool_pc' = "init_gather"
    /\ attempt' = attempt + 1
    /\ cancel_requested' = FALSE
    /\ tasks' = [s \in ServerNames |-> ReadyTask]
    /\ UNCHANGED <<mcp_tools, num_tool_calls, cur_messages, server_tool_calls,
                   tl_obs, notTools>>
    /\ faults' = 0

\* a cancellation during the pause of line 341 leaves initialize_mcp_tools
\* with self.mcp_tools as it was
InitSleepCancelled ==
    /\ tool_pc = "init_sleep"
    /\ tool_pc' = "idle"
    /\ tl_obs' = NoToolObs
    /\ tasks' = NoTasks
    /\ attempt' = 0
    /\ cancel_requested' = FALSE
    /\ UNCHANGED <<mcp_tools, num_tool_calls, cur_messages, server_tool_calls, notTools>>
    /\ faults' = 0


----------------------------------------------------------------------------
InitTools ==
    /\ mcp_tools = <<>>
    /\ num_tool_calls = 0
    /\ cur_messages = <<UserMsg>>
    /\ tool_pc = "uninit"
    /\ server_tool_calls = <<>>
    /\ attempt = 0
    /\ cancel_requested = FALSE
    /\ tasks = NoTasks
    /\ tl_obs = NoToolObs
    /\ faults = 0

NextTools ==
    \/ InitializeStarts
    \/ \E s \in ServerNames : TaskConnects(s)
    \/ \E s \in ServerNames : InitConnectReturns(s)
    \/ \E s \in ServerNames : InitRaises(s)
    \/ \E s \in ServerNames : InitListReturns(s)
    \/ InitGatherReturns
    \/ InitCancelledRetry
    \/ InitCancelledGiveUp
    \/ InitSleepReturns
    \/ InitSleepCancelled
    \/ process_tool_calls
    \/ \E s \in ServerNames : ConnectReturns(s)
    \/ \E s \in ServerNames : ConnectRaises(s)
    \/ \E s \in ServerNames : CallReturns(s)
    \/ \E s \in ServerNames : CallRaises(s)
    \/ \E s \in ServerNames : CallDropsConnection(s)
    \/ \E s \in ServerNames : DisconnectReturns(s)
    \/ Cancel
    \/ GatherReturns
    \/ GatherCancelledRetry
    \/ GatherCancelledGiveUp
    \/ SleepReturns
    \/ SleepCancelled
    \/ TurnEnds


----------------------------------------------------------------------------
InitRuntime ==
    /\ done_messages = <<>>
    /\ summarizer_thread = "None"
    /\ summarizing_messages = None
    /\ summarized_done_messages = <<>>
    /\ enable_context_compaction \in BOOLEAN
    /\ context_compaction_max_tokens \in 1..MaxThreshold
    /\ max_tokens \in 1..MaxThreshold
    /\ main_pc = "idle"
    /\ rt_obs = NoObs

NextRuntime ==
    \/ AppendDone
    \/ summarize_start
    \/ summarize_end
    \/ JoinReturns
    \/ WorkerSnapshot
    \/ WorkerReturns
    \/ WorkerValueError
    \/ WorkerDies
    \/ CompactDisabled
    \/ CompactNotNeeded
    \/ CompactSucceeds
    \/ CompactFails

(***************************************************************************)
(* warm_cache and its worker (runtime.py lines 148-205)                    *)
(***************************************************************************)
\* history: the last step of the warming (a warm_cache call or a ping), the
\* Timer threads started so far, the pings sent since the last warm_cache
\* call that passed its guards
NoWarmObs == [last |-> "none", workers |-> 0, pings |-> 0]

\* lines 150-155
WarmingWanted == add_cache_headers /\ num_cache_warming_pings # 0 /\ ok_to_warm_cache

\* line 165: the test of the worker's loop
LoopAgain == IF ok_to_warm_cache THEN "sleep" ELSE "exited"

\* lines 148-205, called by the main flow; a Timer object is truthy whether
\* its worker has returned or not (line 163)
warm_cache ==
    /\ main_pc = "idle"
    /\ IF ~WarmingWanted
       THEN /\ UNCHANGED <<warming_pings_left, cache_warming_thread>>
            /\ warm_obs' = [warm_obs EXCEPT !.last = "warm_cache"]
       ELSE /\ warming_pings_left' = num_cache_warming_pings
            /\ cache_warming_thread' = IF cache_warming_thread # "None"
                                       THEN cache_warming_thread
                                       ELSE LoopAgain
            /\ warm_obs' = [last |-> "warm_cache", pings |-> 0,
                            workers |-> IF cache_warming_thread # "None"
                                        THEN warm_obs.workers
                                        ELSE warm_obs.workers + 1]
    /\ UNCHANGED <<add_cache_headers, num_cache_warming_pings, ok_to_warm_cache,
                   notWarm>>

\* lines 166-174: the sleep returned; the worker goes on to a ping when
\* pings are left and the time of the next one has come
WarmWakes ==
    /\ cache_warming_thread = "sleep"
    /\ \E due \in BOOLEAN :
          cache_warming_thread' = IF warming_pings_left > 0 /\ due
                                  THEN "due"
                                  ELSE LoopAgain
    /\ UNCHANGED <<warming_pings_left, add_cache_headers, num_cache_warming_pings,
                   ok_to_warm_cache, warm_obs, notWarm>>

\* lines 176-177: the worker counts the ping
WarmCounts ==
    /\ cache_warming_thread = "due"
    /\ warming_pings_left' = warming_pings_left - 1
    /\ cache_warming_thread' = "counted"
    /\ UNCHANGED <<add_cache_headers, num_cache_warming_pings, ok_to_warm_cache,
                   warm_obs, notWarm>>

\* lines 179-188: the worker sends the ping
WarmSends ==
    /\ cache_warming_thread = "counted"
    /\ cache_warming_thread' = "ping"
    /\ warm_obs' = [warm_obs EXCEPT !.last = "ping", !.pings = @ + 1]
    /\ UNCHANGED <<warming_pings_left, add_cache_headers, num_cache_warming_pings,
                   ok_to_warm_cache, notWarm>>

\* lines 181-199: litellm.completion returned or raised (a warning)
WarmPingReturns ==
    /\ cache_warming_thread = "ping"
    /\ cache_warming_thread' = LoopAgain
    /\ UNCHANGED <<warming_pings_left, add_cache_headers, num_cache_warming_pings,
                   ok_to_warm_cache, warm_obs, notWarm>>

\* the Coder turns prompt caching on: the three attributes of lines 34-37
\* are set by the Coder that owns the manager
CoderEnablesWarming ==
    /\ ~add_cache_headers
    /\ add_cache_headers' = TRUE
    /\ num_cache_warming_pings' \in 1..MaxPings
    /\ ok_to_warm_cache' = TRUE
    /\ UNCHANGED <<cache_warming_thread, warming_pings_left, warm_obs, notWarm>>

\* the Coder stops the warming (at its end)
CoderStopsWarming ==
    /\ ok_to_warm_cache
    /\ ok_to_warm_cache' = FALSE
    /\ UNCHANGED <<cache_warming_thread, warming_pings_left, add_cache_headers,
                   num_cache_warming_pings, warm_obs, notWarm>>

\* __init__ lines 34-37
InitWarm ==
    /\ add_cache_headers = FALSE
    /\ cache_warming_thread = "None"
    /\ num_cache_warming_pings = 0
    /\ ok_to_warm_cache = FALSE
    /\ warming_pings_left = 0
    /\ warm_obs = NoWarmObs

NextWarm ==
    \/ warm_cache
    \/ WarmWakes
    \/ WarmCounts
    \/ WarmSends
    \/ WarmPingReturns
    \/ CoderEnablesWarming
    \/ CoderStopsWarming

(***************************************************************************)
(* ResponseParser.parse_partial_args (response_parser.py lines 17-41)      *)
(***************************************************************************)
\* The pieces a buffer is made of: the brackets, the comma, a digit "n", a
\* quotation mark "q" and a key with its colon "k".  Between two quotation
\* marks every piece is text of the string.
JsonPieces == {"{", "}", "[", "]", ",", "n", "q", "k"}

NoValue == [t |-> "none", n |-> 0, items |-> <<>>]
Failed == [ok |-> FALSE, val |-> NoValue, next |-> 0]
Decoded(val, next) == [ok |-> TRUE, val |-> val, next |-> next]

Piece(s, i) == IF i \in 1..Len(s) THEN s[i] ELSE "end"

\* the first quotation mark at i or after it, 0 if there is none
NextQuote(s, i) ==
    LET js == {j \in i..Len(s) : s[j] = "q"}
    IN  IF js = {} THEN 0 ELSE CHOOSE j \in js : \A m \in js : j <= m

\* the place after the digits that begin at i
NumberEnd(s, i) ==
    CHOOSE j \in (i + 1)..(Len(s) + 1) :
        /\ \A m \in i..(j - 1) : s[m] = "n"
        /\ Piece(s, j) # "n"

\* json.loads: the value that begins at piece i and the place after it; a
\* string has the number of its pieces, an array or object its items
RECURSIVE ParseValue(_, _)
RECURSIVE ParseRest(_, _, _, _)
ParseValue(s, i) ==
    CASE Piece(s, i) = "n" ->
            LET j == NumberEnd(s, i)
            IN  Decoded([t |-> "num", n |-> j - i, items |-> <<>>], j)
      [] Piece(s, i) = "q" ->
            LET j == NextQuote(s, i + 1)
            IN  IF j = 0 THEN Failed
                ELSE Decoded([t |-> "str", n |-> j - i - 1, items |-> <<>>], j + 1)
      [] Piece(s, i) = "[" ->
            IF Piece(s, i + 1) = "]"
            THEN Decoded([t |-> "arr", n |-> 0, items |-> <<>>], i + 2)
            ELSE ParseRest(s, i + 1, "]", <<>>)
      [] Piece(s, i) = "{" ->
            IF Piece(s, i + 1) = "}"
            THEN Decoded([t |-> "obj", n |-> 0, items |-> <<>>], i + 2)
            ELSE ParseRest(s, i + 1, "}", <<>>)
      [] OTHER -> Failed

\* the elements of an array (close is "]") or the members of an object
\* (close is "}") from piece i on, items being those before
ParseRest(s, i, close, items) ==
    IF close = "}" /\ Piece(s, i) # "k" THEN Failed
    ELSE LET r == ParseValue(s, IF close = "}" THEN i + 1 ELSE i)
         IN  IF ~r.ok THEN Failed
             ELSE LET its == Append(items, r.val)
                  IN  IF Piece(s, r.next) = close
                      THEN Decoded([t |-> IF close = "]" THEN "arr" ELSE "obj",
                                    n |-> Len(its), items |-> its], r.next + 1)
                      ELSE IF Piece(s, r.next) = ","
                      THEN ParseRest(s, r.next + 1, close, its)
                      ELSE Failed

\* json.loads(s): JSONDecodeError (ok is FALSE) unless the whole of s is one
\* value
json_loads(s) ==
    LET r == ParseValue(s, 1)
    IN  IF r.ok /\ r.next = Len(s) + 1 THEN r ELSE Failed

\* lines 24, 29, 34, 39: what is appended for each attempt
RecoverySuffixesNoQuote ==
    << <<>>, <<"]", "}">>, <<"}", "]", "}">>, <<"}", "]", "}">> >>
RecoverySuffixes ==
    << <<>>, <<"]", "}">>, <<"}", "]", "}">>, <<"q", "}", "]", "}">> >>

\* the implicit return of line 21 and of the end of the function
NoParse == [parsed |-> FALSE, val |-> NoValue, attempt |-> 0]

\* lines 23-41: the attempts from the k-th on
RECURSIVE TryFrom(_, _)
TryFrom(data, k) ==
    IF k > Len(RecoverySuffixes) THEN NoParse
    ELSE LET r == json_loads(data \o RecoverySuffixes[k])
         IN  IF r.ok THEN [parsed |-> TRUE, val |-> r.val, attempt |-> k]
             ELSE TryFrom(data, k + 1)

\* lines 17-41
parse_partial_args ==
    /\ parse_pc = "start"
    /\ parse_result' = IF arguments = <<>> THEN NoParse ELSE TryFrom(arguments, 1)
    /\ parse_pc' = "parsed"
    /\ UNCHANGED <<arguments, notParse>>

\* argument texts of function calls, as the model streams them
Documents ==
    { <<"{", "k", "[", "{", "k", "q", "n", "q", "}", ",", "{", "k", "n", "}", "]", "}">>,
      <<"{", "k", "q", "]", "}", "q", ",", "k", "[", "n", ",", "n", "]", "}">>,
      <<"[", "{", "k", "{", "}", "}", "]">> }

\* the buffers: what has arrived of a document so far, and every sequence of
\* at most MaxBuf pieces
Buffers ==
    UNION {{SubSeq(d, 1, n) : n \in 0..Len(d)} : d \in Documents}
       \cup UNION {[1..n -> JsonPieces] : n \in 0..MaxBuf}

InitParse ==
    /\ arguments \in Buffers
    /\ parse_result = NoParse
    /\ parse_pc = "start"

\* more of the response has arrived
NextChunk ==
    /\ parse_pc = "parsed"
    /\ arguments' \in Buffers
    /\ parse_result' = NoParse
    /\ parse_pc' = "start"
    /\ UNCHANGED notParse

NextParse ==
    \/ parse_partial_args
    \/ NextChunk

\* the parser state while another component runs
ParseQuiet ==
    /\ arguments = <<>>
    /\ parse_result = NoParse
    /\ parse_pc = "start"

(***************************************************************************)
(* process_tool_calls lines 51-79 on its own: the expansion applied to the *)
(* tool calls of one response after another                                *)
(***************************************************************************)
MaxSource == 2

\* the argument strings of a tool call (see split_concatenated_json)
ArgStrings ==
    { <<>>, <<"text">>, <<"obj">>, <<"bad">>, <<"obj", "obj">>,
      <<"obj", "blank", "obj">>, <<"obj", "bad">> }

\* message.tool_calls: one or more calls, the i-th with the identifier <<i>>
SourceCalls ==
    UNION { { [i \in 1..n |-> [id |-> <<i>>, name |-> "search", args |-> a[i]]] :
                a \in [1..n -> ArgStrings] } : n \in 1..MaxSource }

InitExtract ==
    /\ original_tool_calls \in SourceCalls
    /\ expanded_tool_calls = <<>>
    /\ extract_pc = "start"

\* lines 52-79
ExpandCalls ==
    /\ extract_pc = "start"
    /\ expanded_tool_calls' = Expand(original_tool_calls)
    /\ extract_pc' = "expanded"
    /\ UNCHANGED <<original_tool_calls, notExtract>>

\* the next response of the model
NextResponse ==
    /\ extract_pc = "expanded"
    /\ original_tool_calls' \in SourceCalls
    /\ expanded_tool_calls' = <<>>
    /\ extract_pc' = "start"
    /\ UNCHANGED notExtract

NextExtract ==
    \/ ExpandCalls
    \/ NextResponse

\* the extraction state while another component runs
ExtractQuiet ==
    /\ original_tool_calls = <<>>
    /\ expanded_tool_calls = <<>>
    /\ extract_pc = "start"

(***************************************************************************)
(* FileManager (file_manager.py) and EditorManager (editor.py)             *)
(***************************************************************************)
MaxEdits == 2

\* relative paths an edit may name; an edit with no path has NoPath (None)
Paths == {"a", "b"}
NoPath == "None"

\* FileManager.abs_root_path lines 32-41: the path under coder.root
abs_root_path(path) == <<"root", path>>

AbsPaths == {abs_root_path(p) : p \in Paths}

\* history of the last handler call; calls are the allowed_to_edit calls of
\* a batch, commits the file sets repo.commit was given
NoEdObs == [op |-> "none", path |-> NoPath, how |-> "none", ret |-> "none",
            answer |-> FALSE, prompts |-> <<>>, flagged |-> {},
            calls |-> <<>>, commits |-> <<>>, commit_after |-> 0,
            vcs |-> "none", errors |-> 0]

\* no batch is being prepared
NoBatch == [pc |-> "idle", edits |-> <<>>, i |-> 0, res |-> <<>>, seen |-> {}]

\* editor.py lines 17-20
NeverNeedToAdd(path) == FALSE
NeedToAdd(path) == IF ed_cfg.repo THEN path \notin repo_files ELSE FALSE

\* check_for_dirty_commit lines 66-81: whether the path is recorded
FlaggedWhenDirty(path) == ed_cfg.repo /\ path \in dirty_files
NeedsDirtyCommit(path) ==
    /\ ed_cfg.repo
    /\ ed_cfg.dirty_commits
    /\ path \in dirty_files

\* line 31: confirm_ask is a coroutine function (it is awaited at line 50);
\* here its coroutine is not awaited, and `not <coroutine>` is False whatever
\* the user would answer: the prompt never runs
CreateConfirmed(answer) == TRUE

\* line 50: the awaited answer
EditConfirmed(answer) == answer

\* allowed_to_edit lines 14-64 as a function of the state and of its inputs:
\* what the user answers and whether touch_file succeeds.  how names the
\* return taken; ret is "True" or "None"; prompts are the questions the user
\* was asked; staged the paths given to git add.
Outcome(how, ret, prompts, staged, flagged, abs, dsk) ==
    [how |-> how, ret |-> ret, prompts |-> prompts, staged |-> staged,
     flagged |-> flagged, abs |-> abs, disk |-> dsk]

\* (a variant that stages and adds the path before it asks)
AllowedToEditAddsFirst(path, answer, touch_ok) ==
    LET full == abs_root_path(path)
        need_to_add == NeedToAdd(path)
        add == IF need_to_add THEN {path} ELSE {}
        flag == IF NeedsDirtyCommit(path) THEN {path} ELSE {}
    IN  IF full \in abs_fnames
        THEN Outcome("in_chat", "True", <<>>, {}, flag, abs_fnames, disk)
        ELSE IF ed_cfg.repo /\ path \in ed_cfg.ignored
        THEN Outcome("ignored", "None", <<>>, {}, {}, abs_fnames, disk)
        ELSE IF full \notin disk
        THEN IF ~CreateConfirmed(answer)
             THEN Outcome("create_declined", "None", <<"Create new file?">>, {}, {},
                          abs_fnames, disk)
             ELSE IF ed_cfg.dry_run
             THEN Outcome("created", "True", <<>>, {}, {},
                          abs_fnames \cup {full}, disk)
             ELSE IF ~touch_ok
             THEN Outcome("touch_failed", "None", <<>>, {}, {}, abs_fnames, disk)
             ELSE Outcome("created", "True", <<>>, add, {},
                          abs_fnames \cup {full}, disk \cup {full})
        ELSE IF ~EditConfirmed(answer)
        THEN Outcome("declined", "None", <<"Allow edits?">>, add, {},
                     abs_fnames \cup {full}, disk)
        ELSE Outcome("approved", "True", <<"Allow edits?">>, add, flag,
                     abs_fnames \cup {full}, disk)
AllowedToEdit(path, answer, touch_ok) ==
    LET full == abs_root_path(path)
        need_to_add == NeedToAdd(path)
        add == IF need_to_add THEN {path} ELSE {}
        flag == IF NeedsDirtyCommit(path) THEN {path} ELSE {}
    IN  IF full \in abs_fnames
        THEN Outcome("in_chat", "True", <<>>, {}, flag, abs_fnames, disk)
        ELSE IF ed_cfg.repo /\ path \in ed_cfg.ignored
        THEN Outcome("ignored", "None", <<>>, {}, {}, abs_fnames, disk)
        ELSE IF full \notin disk
        THEN IF ~CreateConfirmed(answer)
             THEN Outcome("create_declined", "None", <<"Create new file?">>, {}, {},
                          abs_fnames, disk)
             ELSE IF ed_cfg.dry_run
             THEN Outcome("created", "True", <<>>, {}, {},
                          abs_fnames \cup {full}, disk)
             ELSE IF ~touch_ok
             THEN Outcome("touch_failed", "None", <<>>, {}, {}, abs_fnames, disk)
             ELSE Outcome("created", "True", <<>>, add, {},
                          abs_fnames \cup {full}, disk \cup {full})
        ELSE IF ~EditConfirmed(answer)
        THEN Outcome("declined", "None", <<"Allow edits?">>, {}, {}, abs_fnames, disk)
        ELSE Outcome("approved", "True", <<"Allow edits?">>, add, flag,
                     abs_fnames \cup {full}, disk)

\* the questions of a call, with their subject
Asked(o, path) == [k \in 1..Len(o.prompts) |-> [q |-> o.prompts[k], subject |-> path]]

\* the effect of one allowed_to_edit call on the state
Apply(o) ==
    /\ abs_fnames' = o.abs
    /\ disk' = o.disk
    /\ repo_files' = repo_files \cup o.staged
    /\ need_commit_before_edits' = need_commit_before_edits \cup o.flagged

EdStatic == <<ed_cfg, abs_read_only_fnames, abs_read_only_stubs_fnames>>

\* no editor handler is running and the last one's outcome has been taken
EditorIdle == batch.pc = "idle" /\ ed_obs.op = "none"

\* allowed_to_edit called on its own
allowed_to_edit ==
    /\ EditorIdle
    /\ \E path \in Paths, answer \in BOOLEAN, touch_ok \in BOOLEAN :
          LET o == AllowedToEdit(path, answer, touch_ok)
          IN  /\ Apply(o)
              /\ ed_obs' = [NoEdObs EXCEPT !.op = "allowed_to_edit", !.path = path,
                               !.how = o.how, !.ret = o.ret, !.answer = answer,
                               !.prompts = Asked(o, path)]
    /\ UNCHANGED <<dirty_files, batch, EdStatic, notEditor>>

\* file_manager.py lines 20-23 (check_added_files only warns)
add_rel_fname ==
    /\ EditorIdle
    /\ \E path \in Paths :
          /\ abs_fnames' = abs_fnames \cup {abs_root_path(path)}
          /\ ed_obs' = [NoEdObs EXCEPT !.op = "add_rel_fname"]
    /\ UNCHANGED <<disk, repo_files, dirty_files, need_commit_before_edits, batch,
                   EdStatic, notEditor>>

\* file_manager.py lines 25-30
drop_rel_fname ==
    /\ EditorIdle
    /\ \E path \in Paths :
          /\ abs_fnames' = abs_fnames \ {abs_root_path(path)}
          /\ ed_obs' = [NoEdObs EXCEPT !.op = "drop_rel_fname"]
    /\ UNCHANGED <<disk, repo_files, dirty_files, need_commit_before_edits, batch,
                   EdStatic, notEditor>>

\* file_manager.py lines 43-53, 55-105: get_files_content runs the generator
\* get_abs_fnames_content to its end; a file of the chat whose read_text gives
\* None (it is missing, or cannot be read or decoded) is removed from the
\* chat with a warning (line 51)
get_files_content ==
    /\ EditorIdle
    /\ \E unreadable \in SUBSET abs_fnames :
          /\ abs_fnames \ disk \subseteq unreadable
          /\ abs_fnames' = abs_fnames \ unreadable
          /\ ed_obs' = [NoEdObs EXCEPT !.op = "get_files_content",
                                       !.errors = Cardinality(unreadable)]
    /\ UNCHANGED <<disk, repo_files, dirty_files, need_commit_before_edits, batch,
                   EdStatic, notEditor>>

\* file_manager.py lines 107-166: the read-only files and stubs are read;
\* one that cannot be read is left out of the text
get_read_only_files_content ==
    /\ EditorIdle
    /\ ed_obs' = [NoEdObs EXCEPT !.op = "get_read_only_files_content"]
    /\ UNCHANGED <<abs_fnames, disk, repo_files, dirty_files,
                   need_commit_before_edits, batch, EdStatic, notEditor>>

\* the edits of a batch: each has a path or none; n tells the edits apart
EditLists ==
    UNION { { [i \in 1..n |-> [path |-> ps[i], n |-> i]] :
                ps \in [1..n -> Paths \cup {NoPath}] } : n \in 0..MaxEdits }

\* line 88
PendingKept(pending) == pending
PendingAtStart(pending) == {}

\* lines 85-88
PrepareStarts ==
    /\ EditorIdle
    /\ \E edits \in EditLists :
          /\ batch' = [pc |-> "loop", edits |-> edits, i |-> 1, res |-> <<>>,
                       seen |-> {}]
          /\ ed_obs' = [NoEdObs EXCEPT !.op = "prepare_to_edit", !.ret = "pending"]
    /\ need_commit_before_edits' = PendingAtStart(need_commit_before_edits)
    /\ UNCHANGED <<abs_fnames, disk, repo_files, dirty_files, EdStatic, notEditor>>

\* lines 97-98: the decision remembered for the path, if any
NeverSeen(seen, path) == {}
Seen(seen, path) == {e \in seen : e.path = path}

\* lines 92-94, 103-104
KeptOnlyIfAllowed(path, allowed) == allowed = "True"
Kept(path, allowed) == path = NoPath \/ allowed = "True"

\* lines 90-104: one iteration of the loop
PrepareStep ==
    /\ batch.pc = "loop"
    /\ batch.i <= Len(batch.edits)
    /\ LET edit == batch.edits[batch.i]
           path == edit.path
           keep(allowed) == IF Kept(path, allowed) THEN Append(batch.res, edit)
                            ELSE batch.res
       IN  IF path = NoPath
           THEN /\ batch' = [batch EXCEPT !.i = @ + 1, !.res = keep("None")]
                /\ UNCHANGED <<abs_fnames, disk, repo_files,
                               need_commit_before_edits, ed_obs>>
           ELSE IF Seen(batch.seen, path) # {}
           THEN /\ \E e \in Seen(batch.seen, path) :
                      batch' = [batch EXCEPT !.i = @ + 1, !.res = keep(e.allowed)]
                /\ UNCHANGED <<abs_fnames, disk, repo_files,
                               need_commit_before_edits, ed_obs>>
           ELSE \E answer \in BOOLEAN, touch_ok \in BOOLEAN :
                   LET o == AllowedToEdit(path, answer, touch_ok)
                   IN  /\ Apply(o)
                       /\ batch' = [batch EXCEPT
                              !.i = @ + 1, !.res = keep(o.ret),
                              !.seen = (@ \ Seen(@, path))
                                         \cup {[path |-> path, allowed |-> o.ret]}]
                       /\ ed_obs' = [ed_obs EXCEPT
                              !.calls = Append(@, [path |-> path, ret |-> o.ret,
                                                   at |-> batch.i]),
                              !.prompts = @ \o Asked(o, path),
                              !.flagged = @ \cup o.flagged]
    /\ UNCHANGED <<dirty_files, EdStatic, notEditor>>

\* dirty_commit lines 111-124: whether repo.commit is called
Commits(pending) ==
    /\ pending # {}
    /\ ed_cfg.dirty_commits
    /\ ed_cfg.repo

\* lines 106-109: the commit of the flagged paths, the reset and the return
PrepareReturns ==
    /\ batch.pc = "loop"
    /\ batch.i > Len(batch.edits)
    /\ IF Commits(need_commit_before_edits)
       THEN /\ dirty_files' = dirty_files \ need_commit_before_edits
            /\ ed_obs' = [ed_obs EXCEPT
                             !.commits = Append(@, need_commit_before_edits),
                             !.commit_after = Len(ed_obs.calls),
                             !.ret = batch.res]
       ELSE /\ ed_obs' = [ed_obs EXCEPT !.ret = batch.res]
            /\ UNCHANGED dirty_files
    /\ need_commit_before_edits' = {}
    /\ batch' = [NoBatch EXCEPT !.edits = batch.edits]
    /\ UNCHANGED <<abs_fnames, disk, repo_files, EdStatic, notEditor>>

\* line 106: repo.commit (line 120) raised a VCS error; neither dirty_commit
\* nor prepare_to_edit has a handler, so the exception leaves prepare_to_edit
\* before lines 107 and 109
DirtyCommitRaises ==
    /\ batch.pc = "loop"
    /\ batch.i > Len(batch.edits)
    /\ Commits(need_commit_before_edits)
    /\ ed_obs' = [ed_obs EXCEPT !.commits = Append(@, need_commit_before_edits),
                                !.commit_after = Len(ed_obs.calls),
                                !.vcs = "git_error"]
    /\ batch' = [batch EXCEPT !.pc = "raised"]
    /\ UNCHANGED <<abs_fnames, disk, repo_files, dirty_files,
                   need_commit_before_edits, EdStatic, notEditor>>

\* auto_commit lines 138-139
AutoCommitsInDryRun == ed_cfg.repo /\ ed_cfg.auto_commits
AutoCommitEnabled == ed_cfg.repo /\ ed_cfg.auto_commits /\ ~ed_cfg.dry_run

\* what repo.commit does: it returns (hash, message), returns nothing when
\* nothing changed, or raises one of ANY_GIT_ERROR
VcsOutcomes == {"commit", "nothing", "git_error"}

\* lines 148-157: the notices
FilesEdited == <<"files_content_gpt_edits", "hash", "message">>
NoEdits == <<"files_content_gpt_no_edits">>

\* auto_commit lines 136-159
auto_commit ==
    /\ EditorIdle
    /\ \E edited \in SUBSET Paths, vcs \in VcsOutcomes :
          IF ~AutoCommitEnabled
          THEN /\ ed_obs' = [NoEdObs EXCEPT !.op = "auto_commit", !.ret = "None"]
               /\ UNCHANGED dirty_files
          ELSE /\ ed_obs' = [NoEdObs EXCEPT
                                !.op = "auto_commit", !.vcs = vcs,
                                !.commits = <<edited>>,
                                !.errors = IF vcs = "git_error" THEN 1 ELSE 0,
                                !.ret = CASE vcs = "commit" -> FilesEdited
                                          [] vcs = "nothing" -> NoEdits
                                          [] OTHER -> "None"]
               /\ dirty_files' = IF vcs = "commit" THEN dirty_files \ edited
                                 ELSE dirty_files
    /\ UNCHANGED <<abs_fnames, disk, repo_files, need_commit_before_edits, batch,
                   EdStatic, notEditor>>

\* the caller takes the handler's result and goes on
EditorGoesOn ==
    /\ batch.pc \in {"idle", "raised"}
    /\ ed_obs.op # "none"
    /\ ed_obs' = NoEdObs
    /\ batch' = NoBatch
    /\ UNCHANGED <<abs_fnames, disk, repo_files, dirty_files,
                   need_commit_before_edits, EdStatic, notEditor>>

\* FileManager.__init__ lines 12-18 with the files the session was started
\* with (read-only files and stubs are loaded by the Coder), the working
\* tree and the configuration
InitEditor ==
    /\ abs_fnames = {}
    /\ \E ro \in {{}, {abs_root_path("a")}} :
          /\ abs_read_only_fnames = ro
          /\ abs_read_only_stubs_fnames = IF ro = {} THEN {} ELSE {abs_root_path("b")}
    /\ need_commit_before_edits = {}
    /\ disk \in {{}, {abs_root_path("a")}}
    /\ ed_cfg \in [repo : BOOLEAN, dirty_commits : BOOLEAN, dry_run : BOOLEAN,
                   auto_commits : BOOLEAN, ignored : {{}, {"b"}}]
    /\ ed_cfg.repo \/ ed_cfg.ignored = {}
    /\ repo_files \in IF ed_cfg.repo THEN {{}, {"a"}} ELSE {{}}
    /\ dirty_files \in IF ed_cfg.repo THEN {{}, Paths} ELSE {{}}
    /\ batch = NoBatch
    /\ ed_obs = NoEdObs

NextEditor ==
    \/ allowed_to_edit
    \/ add_rel_fname
    \/ drop_rel_fname
    \/ get_files_content
    \/ get_read_only_files_content
    \/ PrepareStarts
    \/ PrepareStep
    \/ PrepareReturns
    \/ DirtyCommitRaises
    \/ auto_commit
    \/ EditorGoesOn

\* the editor state while another component runs
EditorQuiet ==
    /\ abs_fnames = {}
    /\ abs_read_only_fnames = {}
    /\ abs_read_only_stubs_fnames = {}
    /\ need_commit_before_edits = {}
    /\ disk = {}
    /\ ed_cfg = [repo |-> FALSE, dirty_commits |-> FALSE, dry_run |-> FALSE,
                 auto_commits |-> FALSE, ignored |-> {}]
    /\ repo_files = {}
    /\ dirty_files = {}
    /\ batch = NoBatch
    /\ ed_obs = NoEdObs

\* the runtime state while only the tool flow runs
RuntimeQuiet ==
    /\ InitRuntime
    /\ enable_context_compaction = FALSE
    /\ context_compaction_max_tokens = 1
    /\ max_tokens = 1

InitSpecTools == InitTools /\ RuntimeQuiet /\ ExtractQuiet /\ EditorQuiet /\ InitWarm /\ ParseQuiet

SpecTools == InitSpecTools /\ [][NextTools]_vars

InitSpecRuntime == InitRuntime /\ InitTools /\ ExtractQuiet /\ EditorQuiet /\ InitWarm /\ ParseQuiet

SpecRuntime == InitSpecRuntime /\ [][NextRuntime]_vars

InitSpecExtract == InitExtract /\ InitTools /\ RuntimeQuiet /\ EditorQuiet /\ InitWarm /\ ParseQuiet

SpecExtract == InitSpecExtract /\ [][NextExtract]_vars

InitSpecEditor == InitEditor /\ InitTools /\ RuntimeQuiet /\ ExtractQuiet /\ InitWarm /\ ParseQuiet

SpecEditor == InitSpecEditor /\ [][NextEditor]_vars

\* the summarization and the cache warming of one RuntimeManager
InitSpecWarm ==
    /\ InitRuntime /\ max_tokens = 1 /\ context_compaction_max_tokens = 1
    /\ InitWarm /\ InitTools /\ ExtractQuiet /\ EditorQuiet /\ ParseQuiet

SpecWarm == InitSpecWarm /\ [][NextRuntime \/ NextWarm]_vars

\* parse_partial_args on the buffers of a streamed function call
InitSpecParse ==
    InitParse /\ RuntimeQuiet /\ InitTools /\ ExtractQuiet /\ EditorQuiet /\ InitWarm

SpecParse == InitSpecParse /\ [][NextParse]_vars

Init == InitSpecRuntime
Next == NextRuntime \/ NextTools \/ NextExtract \/ NextEditor \/ NextWarm \/ NextParse
Spec == Init /\ [][Next]_vars

----------------------------------------------------------------------------
(***************************************************************************)
(* Properties of the context-budget manager                                *)
(***************************************************************************)
\* a step in which summarize_end passes its join and runs lines 99-104
EndStep == summarizer_thread = "finished" /\ summarizer_thread' # "finished"

\* C1: when summarize_end runs and the live done-message list is the worker's
\* snapshot followed by messages appended since, the live list is left as it
\* is (the worker's result is dropped); summarize_end changes the list only
\* when the live list equals the snapshot, and then to the worker's result.
C1_StaleSummaryDiscarded ==
    [][ EndStep =>
          /\ (summarizing_messages.some
                /\ IsStrictPrefix(summarizing_messages.v, done_messages))
             => done_messages' = done_messages
          /\ done_messages' # done_messages
             => PyEq(summarizing_messages, done_messages)
          /\ PyEq(summarizing_messages, done_messages)
             => done_messages' = summarized_done_messages
          /\ summarizing_messages' = None /\ summarized_done_messages' = <<>>
      ]_vars

\* a summarize_end has just dropped a worker's result because messages were
\* appended after the snapshot; the live list still holds them
C1_Witness ==
    /\ rt_obs.end = "discarded_appended"
    /\ main_pc = "idle"
    /\ done_messages = rt_obs.pre_done
    /\ Len(done_messages) >= 2

\* a compact_context_if_needed call whose summarize_all_as_text failed has
\* returned
CompactFailedReturned == rt_obs.op = "compact_failed" /\ main_pc = "idle"

\* C2 as stated: after a failed compaction the done-message list is the one
\* before the call and a background worker has been started.
C2_AsStated ==
    CompactFailedReturned =>
        /\ done_messages = rt_obs.pre_done
        /\ rt_obs.started

\* C2 amended: after a failed compaction the compaction pair is not
\* installed; a worker is started exactly when the done-message tokens also
\* exceed the summarizer's own threshold; the done-message list is the one
\* before the call unless an earlier worker was pending at the call, and then
\* it is that list or what that worker left in summarized_done_messages.
C2_FallbackAmended ==
    CompactFailedReturned =>
        /\ rt_obs.started <=> Tokens(rt_obs.pre_done) > max_tokens
        /\ rt_obs.started => summarizer_thread # "None"
        /\ ~rt_obs.started => done_messages = rt_obs.pre_done
        /\ done_messages # rt_obs.pre_done
           => /\ rt_obs.pre_thread # "None"
              /\ done_messages = rt_obs.pending_result

\* a failed compaction fell back and started a worker on an unchanged list
C2_Witness ==
    /\ CompactFailedReturned
    /\ rt_obs.started
    /\ summarizer_thread = "started"
    /\ done_messages = rt_obs.pre_done
    /\ ShouldCompact(done_messages)

----------------------------------------------------------------------------
(***************************************************************************)
(* Properties of the tool-call engine                                      *)
(***************************************************************************)
\* a process_tool_calls call has been made in this turn
Handled == tl_obs.op \notin {"none", "initialize"}

\* the handler returned and left no trace of a run: no task, no response
NothingRan ==
    /\ tasks = NoTasks
    /\ tool_pc = "idle"
    /\ server_tool_calls = <<>>
    /\ cur_messages = tl_obs.pre_cur

\* C3: within process_tool_calls a server task exists (a server is connected
\* to, a tool invoked) only when the user answered yes to "Run tools?"; when
\* the user declines nothing runs, no response is appended and the handler
\* returns False.
C3_NoRunWithoutConsent ==
    Handled =>
        /\ tl_obs.answer # "yes" => NothingRan /\ tl_obs.ret = "False"
        /\ tl_obs.op = "declined" => tl_obs.answer = "no" /\ tl_obs.prompts = 1

\* a batch with routed calls was declined
C3_Witness ==
    /\ tl_obs.op = "declined"
    /\ tl_obs.routed > 0
    /\ tl_obs.ret = "False"
    /\ NothingRan

\* C4: a process_tool_calls call with one or more tool calls made when
\* num_tool_calls >= max_tool_calls runs nothing, asks nothing and warns once.
C4_DispatchCap ==
    (Handled /\ tl_obs.ncalls >= 1 /\ tl_obs.pre_num >= max_tool_calls) =>
        /\ NothingRan
        /\ tl_obs.prompts = 0
        /\ tl_obs.warn_cap + tl_obs.warn_cancel = 1
        /\ tl_obs.ret = "False"

\* the cap stopped a batch of several calls that were routed to a server
C4_Witness ==
    /\ tl_obs.op = "capped"
    /\ tl_obs.ncalls = MaxBatch
    /\ tl_obs.routed > 0
    /\ num_tool_calls >= max_tool_calls

\* the task of s ran its loop: connect returned a session
Connected(t) == t.idx > 0

WasInvoked(t, pos) == \E k \in 1..Len(t.invoked) : t.invoked[k].pos = pos

\* C5 as stated: when a call of a server's list raised the remote-disconnected
\* error, no later call of the list is invoked and each later call has the
\* connection-error response.
C5_DropAbortsRest ==
    \A s \in ServerNames :
        LET t == tasks[s]
            calls == CallsOf(server_tool_calls, s)
        IN  (InDispatch /\ t.pc = "done") =>
              \A k \in 1..Len(t.responses) :
                 t.responses[k].content = DropError =>
                    \A j \in (k + 1)..Len(calls) :
                       /\ ~WasInvoked(t, j)
                       /\ \E r \in 1..Len(t.responses) :
                             /\ t.responses[r].tool_call_id = calls[j].id
                             /\ t.responses[r].content = Disconnected

\* C6: in a finished task whose connect succeeded every routed call has, at
\* its position, one response with its own identifier, and every call that has
\* an argument object was invoked -- whichever of the calls raised.
C6_PerCallIsolation ==
    \A s \in ServerNames :
        LET t == tasks[s]
            calls == CallsOf(server_tool_calls, s)
        IN  (InDispatch /\ t.pc = "done" /\ Connected(t)) =>
              /\ Len(t.responses) = Len(calls)
              /\ \A i \in 1..Len(calls) :
                    /\ t.responses[i].tool_call_id = calls[i].id
                    /\ t.responses[i].role = "tool"
                    /\ ParsedArgs(calls[i].args) # <<>> => WasInvoked(t, i)
                    /\ t.responses[i].content \in {ToolError, DropError}
                       \/ Len(t.responses[i].content) = Len(ParsedArgs(calls[i].args))

\* a call raised and the next call of the same server ran and succeeded,
\* while the other server's task finished as well
C6_Witness ==
    \E s \in ServerNames :
        /\ InDispatch
        /\ tasks[s].pc = "done"
        /\ Len(tasks[s].responses) >= 2
        /\ tasks[s].responses[1].content = ToolError
        /\ tasks[s].responses[2].content = <<"result">>
        /\ \E o \in ServerNames \ {s} : tasks[o].pc = "done" /\ Connected(tasks[o])

\* invocations begun and not yet returned or raised
InFlight(t) == Len(t.invoked) - t.completed

\* C7: a dispatch has one task per server of the map; a task invokes its calls
\* (and the argument objects of a call) one after another in routed order,
\* never beginning an invocation before the previous one has ended.
C7_SequentialPerServer ==
    (tool_pc = "gather" /\ ~cancel_requested) =>
        /\ \A i, j \in 1..Len(server_tool_calls) :
              server_tool_calls[i].server = server_tool_calls[j].server => i = j
        /\ \A s \in ServerNames :
              LET t == tasks[s]
                  calls == CallsOf(server_tool_calls, s)
              IN  /\ t.pc # "none" <=> HasEntry(server_tool_calls, s)
                  /\ InFlight(t) = IF t.pc = "calling" THEN 1 ELSE 0
                  /\ \A k \in 1..Len(t.invoked) :
                        /\ t.invoked[k].pos \in 1..Len(calls)
                        /\ t.invoked[k].id = calls[t.invoked[k].pos].id
                        /\ t.invoked[k].arg
                             \in 1..Len(ParsedArgs(calls[t.invoked[k].pos].args))
                  /\ \A k \in 1..(Len(t.invoked) - 1) :
                        \/ /\ t.invoked[k + 1].pos = t.invoked[k].pos
                           /\ t.invoked[k + 1].arg = t.invoked[k].arg + 1
                        \/ /\ t.invoked[k + 1].pos > t.invoked[k].pos
                           /\ t.invoked[k + 1].arg = 1

\* the tasks of two servers are both inside an invocation, one of them at its
\* second call
C7_Witness ==
    /\ tool_pc = "gather"
    /\ \A s \in ServerNames : tasks[s].pc = "calling"
    /\ \E s \in ServerNames : tasks[s].idx = 2

\* C8: the dispatch is attempted again only after a CancelledError, at most
\* max_retries attempts in all (the attempt number is the number of
\* cancellations caught, whatever calls failed); after max_retries cancelled
\* attempts one warning is given and no response is appended.
C8_BoundedRetry ==
    tl_obs.op = "confirmed" =>
        /\ attempt \in 0..(max_retries - 1)
        /\ tl_obs.cancels <= max_retries
        /\ tool_pc = "gather" => tl_obs.cancels = attempt
        /\ tool_pc = "sleep" => tl_obs.cancels = attempt + 1
        /\ tl_obs.warn_cancel = IF tl_obs.cancels = max_retries THEN 1 ELSE 0
        /\ tl_obs.cancels = max_retries =>
              /\ tool_pc = "idle"
              /\ tl_obs.ret = "True"
              /\ cur_messages = tl_obs.pre_cur
        /\ (tool_pc = "idle" /\ tl_obs.ret = "True" /\ tl_obs.cancels < max_retries)
              => cur_messages = tl_obs.pre_cur \o Flatten(server_tool_calls, tasks)

\* three attempts were cancelled: the handler gave up with its warning
C8_Witness ==
    /\ tl_obs.op = "confirmed"
    /\ tool_pc = "idle"
    /\ tl_obs.cancels = max_retries
    /\ tl_obs.warn_cancel = 1
    /\ attempt = max_retries - 1

\* C9 as stated: every task a dispatch created has called server.disconnect()
\* exactly once when it has ended, however it ended.
C9_EveryTaskDisconnects ==
    \A s \in ServerNames :
        (tl_obs.op = "confirmed" /\ tasks[s].pc \in {"done", "cancelled"})
            => tasks[s].disconnects = 1

\* C9 (amended): a task whose body ran, and so called server.connect(), calls
\* server.disconnect() exactly once before it ends, in a dispatch and in the
\* initialization, however it ends; a task cancelled before its first step
\* connects and disconnects nothing.
C9_DisconnectOnExit ==
    \A s \in ServerNames :
        LET t == tasks[s]
        IN  /\ t.connects \in {0, 1}
            /\ t.disconnects <= t.connects
            /\ t.pc \in {"done", "cancelled"} => t.disconnects = t.connects
            /\ t.pc = "done" => t.connects = 1
            /\ t.pc = "disconnecting" => t.disconnects = 1
            /\ t.pc \in {"connecting", "listing", "calling"}
                  => t.connects = 1 /\ t.disconnects = 0

\* a task cancelled inside an invocation has disconnected, while the other
\* server's task ended normally
C9_Witness ==
    \E s \in ServerNames :
        /\ InDispatch
        /\ tasks[s].pc = "cancelled"
        /\ InFlight(tasks[s]) = 1
        /\ tasks[s].connects = 1
        /\ tasks[s].disconnects = 1
        /\ \E o \in ServerNames \ {s} :
              tasks[o].pc = "done" /\ tasks[o].disconnects = 1

\* the servers of mcp_tools that advertise a tool matching the call
MatchingPairs(call) ==
    {i \in 1..Len(mcp_tools) :
        \E k \in 1..Len(mcp_tools[i].tools) : ToolMatches(mcp_tools[i].tools[k], call)}

\* C10 as stated: every call of the map is there once, under the first server
\* of mcp_tools that advertises a matching tool.
C10_FirstMatchWins ==
    \A i \in 1..Len(server_tool_calls) :
        \A k \in 1..Len(server_tool_calls[i].calls) :
            LET call == server_tool_calls[i].calls[k]
                first == CHOOSE m \in MatchingPairs(call) :
                            \A n \in MatchingPairs(call) : m <= n
            IN  /\ MatchingPairs(call) # {}
                /\ server_tool_calls[i].server = mcp_tools[first].name
                /\ \A j \in 1..Len(server_tool_calls) :
                      \A l \in 1..Len(server_tool_calls[j].calls) :
                         server_tool_calls[j].calls[l].id = call.id
                            => (j = i /\ l = k)

\* a tool of some server of mcp_tools has the call's name, letter case aside
Advertises(call) ==
    \E i \in 1..Len(mcp_tools) :
        \E k \in 1..Len(mcp_tools[i].tools) :
            Lower(mcp_tools[i].tools[k]) = Lower(call.name)

\* the map holds a call with this identifier
Routed(id) ==
    \E i \in 1..Len(server_tool_calls) :
        \E k \in 1..Len(server_tool_calls[i].calls) :
            server_tool_calls[i].calls[k].id = id

\* some task invoked a tool for, or answered, the call with this identifier
Touched(id) ==
    \/ \E s \in ServerNames :
          \/ \E k \in 1..Len(tasks[s].invoked) : tasks[s].invoked[k].id = id
          \/ \E k \in 1..Len(tasks[s].responses) :
                tasks[s].responses[k].tool_call_id = id
    \/ \E k \in 1..Len(cur_messages) :
          cur_messages[k].role = "tool" /\ cur_messages[k].tool_call_id = id

\* C11: a call of the batch is in the map of a confirmed dispatch exactly when
\* some advertised tool has its name up to letter case; a call that matches
\* nothing is in no entry, is never invoked and has no response message, and
\* the handler goes on normally.
C11_RoutingByName ==
    Handled =>
        \A n \in 1..Len(Expand(ToolCallsOf(tl_obs.batch))) :
            LET call == Expand(ToolCallsOf(tl_obs.batch))[n]
            IN  /\ (tl_obs.op = "confirmed" /\ tool_pc = "gather")
                      => (Routed(call.id) <=> Advertises(call))
                /\ ~Advertises(call) => ~Routed(call.id) /\ ~Touched(call.id)
                /\ tl_obs.op = "nothing_routed"
                      => ~Advertises(call) /\ tl_obs.ret = "False" /\ NothingRan

\* a batch with "Search" and an unknown name was run to its end: the map's
\* call is named "Search", its tool "search", and the response is in the
\* conversation
C11_Witness ==
    /\ tl_obs.op = "confirmed"
    /\ tl_obs.ret = "True"
    /\ tool_pc = "idle"
    /\ \E n \in 1..Len(tl_obs.batch) : tl_obs.batch[n].name = "nope"
    /\ \E i \in 1..Len(server_tool_calls) :
          /\ server_tool_calls[i].calls[1].name = "Search"
          /\ Advertised(server_tool_calls[i].server)[1] = "search"
          /\ Touched(server_tool_calls[i].calls[1].id)

\* the chunks of a source call that are not blank, as positions
NonBlank(call) == {i \in 1..Len(call.args) : call.args[i] # "blank"}

\* the calls of the expanded list that come from the source call
DerivedFrom(call) ==
    SelectSeq(expanded_tool_calls, LAMBDA e : e.id[1] = call.id[1])

PassedThrough(call) ==
    \/ call.args = <<>>
    \/ call.args[1] = "text"
    \/ Len(call.args) <= 1

\* C12: the expanded list keeps the order of the source calls; a source call
\* with no arguments, with arguments that do not start like JSON, or with at
\* most one chunk is in it unchanged; any other is replaced by one call per
\* non-blank chunk, in chunk order, with that chunk alone as arguments and the
\* identifier {id}-{i}, i the 0-based position of the chunk.
C12_Expansion ==
    extract_pc = "expanded" =>
        /\ \A m, n \in 1..Len(expanded_tool_calls) :
              m < n => expanded_tool_calls[m].id[1] <= expanded_tool_calls[n].id[1]
        /\ \A k \in 1..Len(original_tool_calls) :
              LET call == original_tool_calls[k]
                  d == DerivedFrom(call)
              IN  IF PassedThrough(call)
                  THEN d = <<call>>
                  ELSE /\ Len(d) = Cardinality(NonBlank(call))
                       /\ \A m \in 1..Len(d) :
                             /\ Len(d[m].id) = 2
                             /\ d[m].id[2] + 1 \in NonBlank(call)
                             /\ d[m].args = <<call.args[d[m].id[2] + 1]>>
                             /\ d[m].name = call.name
                             /\ \A n \in 1..Len(d) : m < n => d[m].id[2] < d[n].id[2]
                       /\ call.args = <<"obj", "obj">>
                             => <<d[1].id, d[2].id>> = <<call.id \o <<0>>, call.id \o <<1>>>>

\* a response whose first call is two concatenated objects and whose second
\* call is a single object was expanded into three calls
C12_Witness ==
    /\ extract_pc = "expanded"
    /\ Len(original_tool_calls) = 2
    /\ original_tool_calls[1].args = <<"obj", "obj">>
    /\ original_tool_calls[2].args = <<"obj">>
    /\ Len(expanded_tool_calls) = 3
    /\ expanded_tool_calls[2].id = <<1, 1>>
    /\ expanded_tool_calls[3] = original_tool_calls[2]

\* C13 as stated: every call of the expanded list has as arguments one JSON
\* value that parses.
C13_ExpandedPayloadParses ==
    extract_pc = "expanded" =>
        \A n \in 1..Len(expanded_tool_calls) :
            expanded_tool_calls[n].args = <<"obj">>

----------------------------------------------------------------------------
(***************************************************************************)
(* Properties of the editor and of the file sets                           *)
(***************************************************************************)
InBatch == ed_obs.op = "prepare_to_edit"
Returned == InBatch /\ batch.pc = "idle"

\* res so far, and the edits the loop has dealt with
BatchRes == IF batch.pc # "idle" THEN batch.res ELSE ed_obs.ret
Processed == IF batch.pc # "idle" THEN 1..(batch.i - 1) ELSE 1..Len(batch.edits)
InRes(edit) == \E k \in 1..Len(BatchRes) : BatchRes[k] = edit

\* C14: in a prepare_to_edit batch allowed_to_edit is called at most once for
\* a path, the user is asked at most once about a path, and the edits that
\* name the same path are all kept or all dropped.
C14_Memoization ==
    InBatch =>
        /\ \A m, n \in 1..Len(ed_obs.calls) :
              ed_obs.calls[m].path = ed_obs.calls[n].path => m = n
        /\ \A m, n \in 1..Len(ed_obs.prompts) :
              ed_obs.prompts[m].subject = ed_obs.prompts[n].subject => m = n
        /\ \A m, n \in Processed :
              (batch.edits[m].path = batch.edits[n].path /\ batch.edits[m].path # NoPath)
                 => (InRes(batch.edits[m]) <=> InRes(batch.edits[n]))

\* two edits of one path: one call, one question, both edits kept
C14_Witness ==
    /\ Returned
    /\ Len(batch.edits) = 2
    /\ batch.edits[1].path = batch.edits[2].path
    /\ Len(ed_obs.calls) = 1
    /\ Len(ed_obs.prompts) = 1
    /\ ed_obs.ret = batch.edits

\* C15: in a batch repo.commit is called at most once, in the step that
\* follows the last authorization, exactly when paths were flagged in this
\* batch and dirty_commits is on and there is a repository, and with exactly
\* the paths flagged in this batch; the pending set holds nothing but the
\* paths flagged in this batch while the batch runs and is empty on return.
C15_CommitCoordination ==
    InBatch =>
        /\ Len(ed_obs.commits) <= 1
        /\ batch.pc = "loop" =>
              /\ ed_obs.commits = <<>>
              /\ need_commit_before_edits = ed_obs.flagged
        /\ batch.pc = "raised" =>
              /\ ed_obs.commits = <<ed_obs.flagged>>
              /\ ed_obs.commit_after = Len(ed_obs.calls)
        /\ batch.pc = "idle" =>
              /\ need_commit_before_edits = {}
              /\ ed_obs.commits # <<>>
                    <=> (ed_obs.flagged # {} /\ ed_cfg.dirty_commits /\ ed_cfg.repo)
              /\ ed_obs.commits # <<>> =>
                    /\ ed_obs.commits[1] = ed_obs.flagged
                    /\ ed_obs.commit_after = Len(ed_obs.calls)
                    /\ \A n \in 1..Len(batch.edits) :
                          batch.edits[n].path # NoPath =>
                             \E k \in 1..Len(ed_obs.calls) :
                                ed_obs.calls[k].path = batch.edits[n].path

\* a batch of two paths committed the one path it flagged
C15_Witness ==
    /\ Returned
    /\ Len(ed_obs.calls) = 2
    /\ Len(ed_obs.commits) = 1
    /\ Cardinality(ed_obs.commits[1]) = 1
    /\ dirty_files # {}

AllowedStep == ed_obs.op = "none" /\ ed_obs'.op = "allowed_to_edit"

IsIgnored(path) == ed_cfg.repo /\ path \in ed_cfg.ignored

\* the path is not in chat, not ignored and not on disk
IsNewPath(path) ==
    /\ abs_root_path(path) \notin abs_fnames
    /\ ~IsIgnored(path)
    /\ abs_root_path(path) \notin disk

\* the path is not in chat, not ignored and on disk
IsUnaddedPath(path) ==
    /\ abs_root_path(path) \notin abs_fnames
    /\ ~IsIgnored(path)
    /\ abs_root_path(path) \in disk

\* C17 as stated: allowed_to_edit on a new path, the user declining to create
\* it, returns None and leaves disk, index and in-chat set as they were.
C17_DeclineCreatesNothing ==
    [][(AllowedStep /\ IsNewPath(ed_obs'.path) /\ ~ed_obs'.answer) =>
          /\ ed_obs'.ret = "None"
          /\ disk' = disk
          /\ repo_files' = repo_files
          /\ abs_fnames' = abs_fnames]_vars

\* C18: allowed_to_edit on a new path, creation confirmed, no dry run and
\* touch_file succeeding: the file exists, the path is in chat, it is staged
\* exactly if there is a repository that did not have it, and the call
\* returns True.
C18_CreateNewFile ==
    [][(/\ AllowedStep
        /\ IsNewPath(ed_obs'.path)
        /\ ed_obs'.answer
        /\ ~ed_cfg.dry_run
        /\ ed_obs'.how # "touch_failed") =>
          /\ ed_obs'.ret = "True"
          /\ disk' = disk \cup {abs_root_path(ed_obs'.path)}
          /\ abs_fnames' = abs_fnames \cup {abs_root_path(ed_obs'.path)}
          /\ repo_files' = IF ed_cfg.repo THEN repo_files \cup {ed_obs'.path}
                           ELSE repo_files]_vars

\* a new file was created and staged in a repository that did not have it
C18_Witness ==
    /\ ed_obs.op = "allowed_to_edit"
    /\ ed_obs.how = "created"
    /\ ed_obs.answer
    /\ ~ed_cfg.dry_run
    /\ ed_cfg.repo
    /\ ed_obs.path = "b"
    /\ ed_obs.path \in repo_files
    /\ abs_root_path(ed_obs.path) \in disk \cap abs_fnames

\* C19: allowed_to_edit on a path in chat returns True and asks nothing; a
\* call adds its path to the pending set exactly when the path was in chat or
\* was an existing unadded file the user approved, and there is a repository,
\* dirty_commits is on and the path is dirty; it adds nothing else.
C19_DirtyFlagging ==
    [][AllowedStep =>
          LET path == ed_obs'.path
              authorized == \/ abs_root_path(path) \in abs_fnames
                            \/ IsUnaddedPath(path) /\ ed_obs'.answer
              flag == /\ authorized
                      /\ ed_cfg.repo
                      /\ ed_cfg.dirty_commits
                      /\ path \in dirty_files
          IN  /\ abs_root_path(path) \in abs_fnames
                    => ed_obs'.ret = "True" /\ ed_obs'.prompts = <<>>
              /\ need_commit_before_edits' =
                    need_commit_before_edits \cup (IF flag THEN {path} ELSE {})]_vars

\* a dirty path in chat was authorized with no question and flagged
C19_Witness ==
    /\ ed_obs.op = "allowed_to_edit"
    /\ ed_obs.how = "in_chat"
    /\ ed_obs.prompts = <<>>
    /\ ed_obs.ret = "True"
    /\ need_commit_before_edits = {ed_obs.path}

\* the batch authorized the path
Authorized(path) ==
    \E k \in 1..Len(ed_obs.calls) :
        ed_obs.calls[k].path = path /\ ed_obs.calls[k].ret = "True"

\* C20: prepare_to_edit returns the edits that have no path or an authorized
\* path, in input order; no call and no question is about an edit without a
\* path.
C20_FilteredInOrder ==
    InBatch =>
        /\ \A k \in 1..Len(ed_obs.calls) : ed_obs.calls[k].path \in Paths
        /\ \A k \in 1..Len(ed_obs.prompts) : ed_obs.prompts[k].subject \in Paths
        /\ batch.pc = "idle" =>
              ed_obs.ret = SelectSeq(batch.edits,
                              LAMBDA e : e.path = NoPath \/ Authorized(e.path))

\* of three kinds of edit the one without a path and the authorized one are
\* returned
C20_Witness ==
    /\ Returned
    /\ Len(batch.edits) = 2
    /\ batch.edits[1].path = NoPath
    /\ batch.edits[2].path # NoPath
    /\ ed_obs.ret = <<batch.edits[1]>>
    /\ ed_obs.calls # <<>>

\* C21: auto_commit without a repository, with auto_commits off or in a dry
\* run calls repo.commit not at all and returns None; otherwise it calls it
\* once, whatever the edited set, and returns the files-edited notice with
\* hash and message for a commit, the no-edits notice when nothing changed,
\* and None with one error reported when the VCS raised.
C21_AutoCommitOutcome ==
    ed_obs.op = "auto_commit" =>
        IF ~ed_cfg.repo \/ ~ed_cfg.auto_commits \/ ed_cfg.dry_run
        THEN ed_obs.commits = <<>> /\ ed_obs.ret = "None" /\ ed_obs.errors = 0
        ELSE /\ Len(ed_obs.commits) = 1
             /\ ed_obs.vcs = "commit"
                   => ed_obs.ret = FilesEdited /\ ed_obs.errors = 0
             /\ ed_obs.vcs = "nothing"
                   => ed_obs.ret = NoEdits /\ ed_obs.errors = 0
             /\ ed_obs.vcs = "git_error"
                   => ed_obs.ret = "None" /\ ed_obs.errors = 1

\* a commit of no files was attempted and the VCS had nothing to commit
C21_Witness ==
    /\ ed_obs.op = "auto_commit"
    /\ ed_obs.commits = <<{}>>
    /\ ed_obs.vcs = "nothing"
    /\ ed_obs.ret = NoEdits

\* a compact_context_if_needed call has returned
CompactOps == {"compact_disabled", "compact_not_needed", "compact_ok", "compact_failed"}
CompactReturned == rt_obs.op \in CompactOps /\ main_pc = "idle"

\* the list the call began with is over the compaction threshold
WasOverCompactionLimit == Tokens(rt_obs.pre_done) > context_compaction_max_tokens

\* C22 as stated: a compact_context_if_needed call changes done_messages only
\* with compaction enabled and the list over the compaction threshold; with
\* the list not over it, the list is unchanged and no worker is started.
C22_ChangesOnlyWhenCompacting ==
    CompactReturned =>
        /\ done_messages # rt_obs.pre_done
              => (enable_context_compaction /\ WasOverCompactionLimit)
        /\ ~WasOverCompactionLimit
              => (done_messages = rt_obs.pre_done /\ ~rt_obs.started)

\* C22 (amended): the two-message replacement is installed only with
\* compaction enabled and the list over the compaction threshold, and is then
\* the whole list; with compaction enabled and the list not over the
\* threshold nothing changes and no worker is started; with compaction
\* disabled the call is summarize_start, which changes the list only by
\* swapping in the result of an earlier worker.
C22_CompactionAmended ==
    CompactReturned =>
        /\ rt_obs.op = "compact_ok" =>
              /\ enable_context_compaction /\ WasOverCompactionLimit
              /\ Len(done_messages) = 2
              /\ done_messages[1].role = "user"
              /\ done_messages[1].content = "summary_text"
              /\ done_messages[2].role = "assistant"
        /\ (enable_context_compaction /\ ~WasOverCompactionLimit) =>
              /\ rt_obs.op = "compact_not_needed"
              /\ done_messages = rt_obs.pre_done
              /\ ~rt_obs.started
        /\ ~enable_context_compaction =>
              /\ rt_obs.op = "compact_disabled"
              /\ done_messages # rt_obs.pre_done
                    => (rt_obs.end = "swapped" /\ done_messages = rt_obs.pending_result)

\* a list of three messages was replaced by the two of the compaction
C22_Witness ==
    /\ CompactReturned
    /\ rt_obs.op = "compact_ok"
    /\ Len(rt_obs.pre_done) = MaxDone
    /\ Len(done_messages) = 2

\* C23 as stated: a summarize_start call never waits for a summarization
\* worker: it is never blocked in the join of an earlier worker.
C23_StartNeverWaits ==
    rt_obs.op = "summarize_start" => main_pc # "join_start"

\* the call ids of the map from entry i on, entry after entry, each entry's
\* calls in the order they were routed
RECURSIVE IdsFrom(_)
IdsFrom(i) ==
    IF i > Len(server_tool_calls) THEN <<>>
    ELSE [k \in 1..Len(server_tool_calls[i].calls) |-> server_tool_calls[i].calls[k].id]
         \o IdsFrom(i + 1)

\* the messages the handler has appended so far
Appended == SubSeq(cur_messages, Len(tl_obs.pre_cur) + 1, Len(cur_messages))

\* C24: the conversation is untouched until every server task of the batch
\* has finished; the responses then appended are those of the map's servers in
\* the order of the map and, within a server, of the routed calls, whichever
\* task finished first.
C24_ResponseOrder ==
    tl_obs.op = "confirmed" =>
        /\ Len(cur_messages) >= Len(tl_obs.pre_cur)
        /\ SubSeq(cur_messages, 1, Len(tl_obs.pre_cur)) = tl_obs.pre_cur
        /\ tool_pc # "idle" => cur_messages = tl_obs.pre_cur
        /\ Appended # <<>> =>
              /\ AllFinished
              /\ tl_obs.ret = "True"
              /\ [k \in 1..Len(Appended) |-> Appended[k].tool_call_id] = IdsFrom(1)
              /\ \A k \in 1..Len(Appended) : Appended[k].role = "tool"

\* both servers answered and the task of the map's second server ended first
C24_Witness ==
    /\ tl_obs.op = "confirmed"
    /\ tool_pc = "idle"
    /\ Len(server_tool_calls) = 2
    /\ tl_obs.first_done = server_tool_calls[2].server
    /\ Len(Appended) >= 2
    /\ Appended[1].tool_call_id = server_tool_calls[1].calls[1].id

\* the connect of the task failed: the task is past it with no session
ConnectFailed(t) ==
    t.pc \in {"disconnecting", "done"} /\ t.idx = 0 /\ ~t.cancelled

\* C25: a task whose connect failed invokes no tool and answers every call
\* routed to its server once, all with the same connection error; the tasks
\* of the other servers of the dispatch run to their end and their own
\* responses are appended with those of the failed server.
C25_UnreachableServer ==
    \A s \in ServerNames :
        LET t == tasks[s]
            calls == CallsOf(server_tool_calls, s)
        IN  (tl_obs.op = "confirmed" /\ ConnectFailed(t)) =>
              /\ t.invoked = <<>> /\ t.completed = 0
              /\ Len(t.responses) = Len(calls)
              /\ \A i \in 1..Len(calls) :
                    /\ t.responses[i].tool_call_id = calls[i].id
                    /\ t.responses[i].content = t.responses[1].content
                    /\ t.responses[i].content \in {Disconnected, CouldNotConnect}
              /\ (tool_pc = "idle" /\ tl_obs.ret = "True") =>
                    /\ Len(Appended) >= Len(calls)
                    /\ \A o \in ServerNames \ {s} :
                          HasEntry(server_tool_calls, o) =>
                             /\ tasks[o].pc = "done"
                             /\ Len(tasks[o].responses)
                                   = Len(CallsOf(server_tool_calls, o))
                             /\ Len(Appended) = Len(calls) + Len(tasks[o].responses)

\* one server could not be connected to, the other returned a result, and
\* both servers' responses were appended
C25_Witness ==
    \E s \in ServerNames, o \in ServerNames :
        /\ s # o
        /\ tl_obs.op = "confirmed" /\ tool_pc = "idle" /\ tl_obs.ret = "True"
        /\ ConnectFailed(tasks[s])
        /\ Len(tasks[s].responses) >= 1
        /\ tasks[o].pc = "done" /\ tasks[o].idx > 0
        /\ \E i \in 1..Len(tasks[o].responses) :
              tasks[o].responses[i].content = <<"result">>
        /\ Len(Appended) = Len(tasks[s].responses) + Len(tasks[o].responses)

\* initialize_mcp_tools is running
Initializing == tool_pc \in {"init_gather", "init_sleep"}

\* the task of server s returned a (name, tools) pair
ListedOk(s) == tasks[s].pc = "done" /\ tasks[s].listed = "tools"

\* C26: initialize_mcp_tools sets the advertised-tool list to the pairs of the
\* servers whose connect and listing both succeeded, in configuration order;
\* a server that failed gave a warning and has no pair, and only servers with a
\* pair are ever routed to; a cancelled batch is attempted max_retries times at
\* most, and after the last the list is empty and a warning is given; the list
\* changes at no other time.
C26_Initialization ==
    /\ [](Initializing => attempt \in 0..(max_retries - 1))
    /\ [](\A i \in 1..Len(server_tool_calls) :
             \E k \in 1..Len(mcp_tools) : mcp_tools[k].name = server_tool_calls[i].server)
    /\ [][(InInit /\ tool_pc' = "idle") =>
             IF cancel_requested
             THEN /\ attempt = max_retries - 1
                  /\ mcp_tools' = <<>>
                  /\ tl_obs'.warn_cancel = 1
             ELSE /\ \A s \in ServerNames :
                        \/ ListedOk(s)
                        \/ tasks[s].pc = "done" /\ tasks[s].listed = "failed"
                           /\ tasks[s].warned = 1
                  /\ [k \in 1..Len(mcp_tools') |-> mcp_tools'[k].name]
                        = SelectSeq(mcp_servers, ListedOk)
                  /\ \A k \in 1..Len(mcp_tools') :
                        mcp_tools'[k].tools = Advertised(mcp_tools'[k].name)
                  /\ tl_obs'.warn_cancel = 0
         ]_vars
    /\ [][~InInit => mcp_tools' = mcp_tools]_vars

\* one server failed at initialization, and a later batch was routed to the
\* other server only
C26_Witness ==
    /\ Len(mcp_tools) = 1
    /\ mcp_tools[1].name = mcp_servers[2]
    /\ tl_obs.op = "confirmed"
    /\ Len(server_tool_calls) = 1
    /\ server_tool_calls[1].server = mcp_servers[2]

\* C27 as stated: no summarization worker is inside the summarizer while the
\* cache-warming worker is inside its completion call.
C27_NoSummaryDuringPing ==
    ~(cache_warming_thread = "ping" /\ summarizer_thread = "running")

\* C28 as stated: a prepare_to_edit batch is never left by a VCS error: once
\* its loop is over it has returned the authorized edits and the pending set
\* is empty.
C28_VcsFailureCaught ==
    (InBatch /\ batch.pc # "loop") =>
        /\ batch.pc = "idle"
        /\ need_commit_before_edits = {}
        /\ ed_obs.ret = SelectSeq(batch.edits,
                           LAMBDA e : e.path = NoPath \/ Authorized(e.path))

\* a step of a batch that is a call of allowed_to_edit
BatchCallStep == batch.pc = "loop" /\ Len(ed_obs'.calls) = Len(ed_obs.calls) + 1

\* what an unauthorized call must leave alone
AuthorizationFrame ==
    /\ abs_fnames' = abs_fnames
    /\ need_commit_before_edits' = need_commit_before_edits
    /\ repo_files' = repo_files

\* C30: a call of allowed_to_edit that returns None, on its own or in a
\* batch, leaves the in-chat set, the pending set and the index as they were;
\* a call on an ignored path returns None and asks nothing.
C30_UnauthorizedChangesNothing ==
    /\ [][(AllowedStep /\ ed_obs'.ret = "None") => AuthorizationFrame]_vars
    /\ [][(AllowedStep /\ IsIgnored(ed_obs'.path)
                       /\ abs_root_path(ed_obs'.path) \notin abs_fnames) =>
             /\ ed_obs'.ret = "None"
             /\ ed_obs'.prompts = <<>>
             /\ AuthorizationFrame]_vars
    /\ [][(BatchCallStep /\ ed_obs'.calls[Len(ed_obs'.calls)].ret = "None") =>
             AuthorizationFrame]_vars

\* the user declined the edits of a file while another path was pending and
\* a file was in chat
C30_Witness ==
    /\ ed_obs.op = "allowed_to_edit"
    /\ ed_obs.how = "declined"
    /\ ed_obs.ret = "None"
    /\ need_commit_before_edits # {}
    /\ abs_fnames # {}
    /\ abs_root_path(ed_obs.path) \notin abs_fnames

\* the four texts the claim has parsed, in its order
ClaimedAttempts(data) ==
    << data, data \o <<"]", "}">>, data \o <<"}", "]", "}">>,
       data \o <<"q", "}", "]", "}">> >>

\* the attempts that parse
Parsing(data) == {k \in 1..4 : json_loads(ClaimedAttempts(data)[k]).ok}

\* C29: parse_partial_args returns nothing for an empty buffer and for one
\* none of whose four attempts parses; otherwise it returns the value of the
\* first attempt (the buffer, then the buffer with ]} , with }]} , with "}]} )
\* that parses.
C29_ParseRecovery ==
    parse_pc = "parsed" =>
        IF arguments = <<>> \/ Parsing(arguments) = {}
        THEN parse_result = NoParse
        ELSE LET k == CHOOSE k \in Parsing(arguments) :
                         \A m \in Parsing(arguments) : k <= m
             IN  /\ parse_result.parsed
                 /\ parse_result.attempt = k
                 /\ parse_result.val = json_loads(ClaimedAttempts(arguments)[k]).val

\* a buffer that ends inside a string of an object of the list parsed with
\* the last suffix only
C29_Witness ==
    /\ parse_pc = "parsed"
    /\ parse_result.parsed
    /\ parse_result.attempt = 4
    /\ parse_result.val.t = "obj"
    /\ Len(arguments) >= 6

\* the operations that may change the membership of the in-chat set
ExplicitOps == {"add_rel_fname", "drop_rel_fname", "allowed_to_edit", "prepare_to_edit"}

\* C31 as stated: the in-chat set changes only in a step of add_rel_fname,
\* drop_rel_fname or an allowed_to_edit call, and the read-only and stub-only
\* sets never change; rendering the contents of the files changes no set.
C31_NoImplicitTransition ==
    [][/\ abs_fnames' # abs_fnames => ed_obs'.op \in ExplicitOps
       /\ abs_read_only_fnames' = abs_read_only_fnames
       /\ abs_read_only_stubs_fnames' = abs_read_only_stubs_fnames]_vars

\* C32 as stated: a summarize_end never puts an empty list in the place of a
\* non-empty done-message list (no summary is empty, so an empty list is what
\* a worker that failed before its result left behind).
C32_FailedWorkerKeepsHistory ==
    (main_pc = "idle" /\ rt_obs.op # "none" /\ rt_obs.pre_done # <<>>)
        => done_messages # <<>>

\* C33: the task of a server that ended without being cancelled has, for the
\* calls routed to the server, one response each and no other, in routed
\* order, with the call's identifier and the role "tool", whatever happened
\* to the connect and to the calls.
C33_OneResponsePerCall ==
    \A s \in ServerNames :
        LET t == tasks[s]
            calls == CallsOf(server_tool_calls, s)
        IN  (tl_obs.op = "confirmed" /\ t.pc = "done" /\ ~t.cancelled) =>
              /\ Len(t.responses) = Len(calls)
              /\ \A i \in 1..Len(calls) :
                    /\ t.responses[i].tool_call_id = calls[i].id
                    /\ t.responses[i].role = "tool"

\* a task lost its connection in its first call and still answered its two
\* calls, the second with a result
C33_Witness ==
    \E s \in ServerNames :
        /\ tl_obs.op = "confirmed"
        /\ tasks[s].pc = "done" /\ ~tasks[s].cancelled
        /\ Len(tasks[s].responses) = 2
        /\ tasks[s].responses[1].content = DropError
        /\ tasks[s].responses[2].content = <<"result">>

\* C34 as stated: no call whose invocation had ended in a cancelled attempt
\* of the batch is invoked again in a later attempt.
C34_AtMostOnce ==
    tl_obs.op = "confirmed" =>
        \A s \in ServerNames :
            \A k \in 1..Len(tasks[s].invoked) : tasks[s].invoked[k].id \notin tl_obs.ran

\* a step in which a call of the main flow starts a worker
StartsWorker ==
    /\ rt_obs'.started
    /\ main_pc' = "idle"
    /\ main_pc # "idle" \/ rt_obs' # rt_obs

\* C35: a worker is started only in a step before which there is no worker
\* or the worker has finished and is joined in the step, its result swapped
\* in or discarded and the worker's two fields reset; while the main flow
\* waits in a join there is one worker, and none is started.
C35_OneWorker ==
    /\ [][StartsWorker =>
             /\ summarizer_thread \in {"None", "finished"}
             /\ summarizer_thread' = "started"
             /\ summarizing_messages' = None
             /\ summarized_done_messages' = <<>>
             /\ done_messages' \in {done_messages, summarized_done_messages}]_vars
    /\ [][(summarizer_thread \in {"started", "running"} /\ summarizer_thread' = "started")
             => UNCHANGED <<summarizer_thread, summarizing_messages,
                            summarized_done_messages>>]_vars

\* a second summarize_start found the first worker running, waited for it and
\* then started the next
C35_Witness ==
    /\ rt_obs.op = "summarize_start"
    /\ rt_obs.pre_thread = "running"
    /\ rt_obs.started
    /\ main_pc = "idle"
    /\ summarizer_thread = "started"

\* a warm_cache call made when the headers are off, no ping is configured or
\* warming is not permitted
RefusedWarmCall ==
    /\ warm_obs'.last = "warm_cache"
    /\ warm_obs.last # "warm_cache"
    /\ ~add_cache_headers \/ num_cache_warming_pings = 0 \/ ~ok_to_warm_cache

\* C36: a warm_cache call with the headers off, no ping configured or warming
\* not permitted changes nothing and starts nothing; one worker at most is
\* ever started; the counter of the pings left is never negative; and no more
\* pings than configured are sent after a warm_cache call.
C36_CacheWarming ==
    /\ [][RefusedWarmCall =>
             UNCHANGED <<cache_warming_thread, warming_pings_left, add_cache_headers,
                         num_cache_warming_pings, ok_to_warm_cache>>]_vars
    /\ [](/\ warm_obs.workers <= 1
          /\ warm_obs.workers = 0 <=> cache_warming_thread = "None"
          /\ warming_pings_left >= 0
          /\ warm_obs.pings <= num_cache_warming_pings)

=============================================================================
